---- MODULE Spec2Model ----
(***************************************************************************)
(* A model of linkcheck's link validation: the filesystem resolver         *)
(* (src/validation/filesystem.rs), the web cache (src/validation/cache.rs),*)
(* the web checker (src/validation/web.rs) and the validation orchestrator *)
(* (src/validation/mod.rs).                                                *)
(*                                                                         *)
(* Paths are sequences of segments, read from the filesystem root: the     *)
(* path /r/foo is <<"r", "foo">> and / is << >>.  A path string keeps its  *)
(* "." and ".." segments until an operation that the code applies to it    *)
(* (Path::components, realpath, normalize_path) removes them.              *)
(***************************************************************************)
EXTENDS Integers, Sequences, FiniteSets, TLC

\* ------------------------------------------------------------------ bounds

\* The longest link path, in segments.
MaxLinkLen == 3
\* The number of symlinks realpath follows before it reports a loop.
MaxSymlinkDepth == 2
\* The longest batch of links handed to validate.
MaxLinks == 3
\* The largest value of Context::concurrency.
MaxConcurrency == 2
\* The last reading of the system clock, and the largest timeout asked of the
\* cache; time is counted in days.
MaxTime == 2
MaxTimeout == 2
\* The longest href handed to Category::categorise, in characters.
MaxHrefLen == 4

\* ------------------------------------------------------------- vocabulary

None == "None"
TraversesParentDirectories == "TraversesParentDirectories"
IoNotFound == "Io(NotFound)"
IoNotADirectory == "Io(NotADirectory)"
IoFilesystemLoop == "Io(FilesystemLoop)"

Ok(v) == [ok |-> TRUE, val |-> v]
Err(r) == [ok |-> FALSE, err |-> r]

\* A relative path string with the given segments / a rooted one ("/...").
Rel(segs) == [rooted |-> FALSE, segs |-> segs]
Abs(segs) == [rooted |-> TRUE, segs |-> segs]

\* Option<PathBuf>
NoPath == [some |-> FALSE, path |-> << >>]
SomePath(p) == [some |-> TRUE, path |-> p]

\* ------------------------------------------------- std::path on this model

\* Path::components on an absolute path: every "." is normalised away.
Components(p) == SelectSeq(p, LAMBDA s : s # ".")

\* PathBuf::pop: drops the last component; the root has no parent and stays.
Pop(p) == IF p = << >> THEN << >> ELSE SubSeq(p, 1, Len(p) - 1)

\* Path::starts_with: a component-wise prefix.
StartsWith(p, base) ==
    LET cp == Components(p)
        cb == Components(base)
    IN  /\ Len(cb) <= Len(cp)
        /\ SubSeq(cp, 1, Len(cb)) = cb

\* Path::file_name: the last component when it is a normal one.
FileName(p) ==
    LET c == Components(p)
    IN  IF c = << >> \/ c[Len(c)] = ".." THEN None ELSE c[Len(c)]

\* The part of a file name after its last dot (the names of this model).
ExtensionOfName(n) ==
    CASE n = "index.md"   -> "md"
      [] n = "index.html" -> "html"
      [] n = "index.MD"   -> "MD"
      [] n = "index.txt"  -> "txt"
      [] n = "missing.md"   -> "md"
      [] n = "missing.html" -> "html"
      [] OTHER            -> None

\* Path::extension
Extension(p) == IF FileName(p) = None THEN None ELSE ExtensionOfName(FileName(p))

\* str::to_lowercase on an extension.
ToLowercase(e) ==
    CASE e = "MD"   -> "md"
      [] e = "HTML" -> "html"
      [] OTHER      -> e

\* A file name with its extension replaced (the names of this model).
NameWithExtension(n, e) ==
    CASE n \in {"index.md", "index.MD", "index.html", "index.txt"} /\ e = "html" ->
              "index.html"
      [] n \in {"index.md", "index.MD", "index.html", "index.txt"} /\ e = "md" ->
              "index.md"
      [] n \in {"index.md", "index.MD", "index.html", "index.txt"} /\ e = "txt" ->
              "index.txt"
      [] n \in {"missing.md", "missing.html"} /\ e = "html" -> "missing.html"
      [] n \in {"missing.md", "missing.html"} /\ e = "md" -> "missing.md"
      [] OTHER -> n

\* Path::with_extension: the path is cut after its file name (a trailing "."
\* goes) and the file name's extension is replaced; no file name, no change.
WithExtension(p, e) ==
    IF FileName(p) = None THEN p
    ELSE LET c == Components(p)
         IN  Pop(c) \o <<NameWithExtension(c[Len(c)], e)>>

\* ------------------------------------------------------------ filesystem

Dir == [kind |-> "dir", target |-> Rel(<< >>)]
File == [kind |-> "file", target |-> Rel(<< >>)]
Symlink(t) == [kind |-> "symlink", target |-> t]

\* What lstat finds at a canonical path; the root directory always exists.
Present(fs, p) == p = << >> \/ p \in DOMAIN fs
Node(fs, p) == IF p = << >> THEN Dir ELSE fs[p]

\* realpath(3), which dunce::canonicalize and Path::is_dir / Path::exists rest
\* on: walks `rest` from the canonical path `cur`, following symlinks.
RECURSIVE Walk(_, _, _, _)
Walk(fs, cur, rest, depth) ==
    IF rest = << >> THEN Ok(cur)
    ELSE IF Node(fs, cur).kind # "dir" THEN Err(IoNotADirectory)
    ELSE LET s == Head(rest)
             t == Tail(rest)
         IN  IF s = "." THEN Walk(fs, cur, t, depth)
             ELSE IF s = ".." THEN Walk(fs, Pop(cur), t, depth)
             ELSE LET p == Append(cur, s)
                  IN  IF ~Present(fs, p) THEN Err(IoNotFound)
                      ELSE IF fs[p].kind = "symlink"
                      THEN IF depth = 0 THEN Err(IoFilesystemLoop)
                           ELSE Walk(fs,
                                     IF fs[p].target.rooted THEN << >> ELSE cur,
                                     fs[p].target.segs \o t, depth - 1)
                      ELSE Walk(fs, p, t, depth)

\* dunce::canonicalize of an absolute path string.
dunce_canonicalize(fs, p) == Walk(fs, << >>, p, MaxSymlinkDepth)

\* Path::exists and Path::is_dir: both follow symlinks.
exists(fs, p) == dunce_canonicalize(fs, p).ok
is_dir(fs, p) ==
    LET r == dunce_canonicalize(fs, p)
    IN  r.ok /\ Node(fs, r.val).kind = "dir"

\* normalize_path: the lexical normal form, computed without the filesystem:
\* "." dropped, ".." pops the previous component.
RECURSIVE NormalizeFrom(_, _)
NormalizeFrom(ret, rest) ==
    IF rest = << >> THEN ret
    ELSE IF Head(rest) = ".." THEN NormalizeFrom(Pop(ret), Tail(rest))
    ELSE NormalizeFrom(Append(ret, Head(rest)), Tail(rest))

normalize_path(p) == NormalizeFrom(<< >>, Components(p))

\* ---------------------------------------------------------------- Options

\* Options::DEFAULT_FILE
DEFAULT_FILE == "index.html"

\* Options::default_alternate_extensions: md -> [html]
default_alternate_extensions == [e \in {"md"} |-> <<"html">>]

\* The functions handed to set_custom_validation, by name: the default,
\* which accepts everything, one that refuses every link with a fragment and
\* one that refuses every index.md.
nop_custom_validation == "nop"
CustomValidations == { nop_custom_validation, "no_fragments", "no_markdown" }

IoPermissionDenied == "Io(PermissionDenied)"
IoInvalidData == "Io(InvalidData)"

\* Options::new
OptionsNew ==
    [root_directory |-> NoPath,
     default_file |-> DEFAULT_FILE,
     links_may_traverse_the_root_directory |-> FALSE,
     follow_symlinks |-> TRUE,
     alternate_extensions |-> default_alternate_extensions,
     custom_validation |-> nop_custom_validation]

\* with_root_directory that stores its argument as it is given.
with_root_directory_as_given(fs, opts, root_directory) ==
    Ok([opts EXCEPT !.root_directory = SomePath(root_directory)])

\* Options::with_root_directory: the root is stored in canonical form, and an
\* error (no Options) comes back when it cannot be canonicalised.
with_root_directory(fs, opts, root_directory) ==
    LET c == dunce_canonicalize(fs, root_directory)
    IN  IF c.ok THEN Ok([opts EXCEPT !.root_directory = SomePath(c.val)]) ELSE c

set_links_may_traverse_the_root_directory(opts, value) ==
    [opts EXCEPT !.links_may_traverse_the_root_directory = value]

set_follow_symlinks(opts, value) == [opts EXCEPT !.follow_symlinks = value]

\* Options::set_custom_validation
set_custom_validation(opts, custom_validation) ==
    [opts EXCEPT !.custom_validation = custom_validation]

\* A custom validation that turns down every link that names a section.
run_custom_validation_fragments_refused(opts, resolved_path, fragment) ==
    IF fragment # None THEN Err(IoNotFound) ELSE Ok(<< >>)

\* Options::run_custom_validation
run_custom_validation(opts, resolved_path, fragment) ==
    CASE opts.custom_validation = "no_fragments" /\ fragment # None ->
            Err(IoPermissionDenied)
      [] opts.custom_validation = "no_markdown"
            /\ FileName(resolved_path) = "index.md" ->
            Err(IoInvalidData)
      [] OTHER -> Ok(<< >>)

\* Options::set_alternate_extensions: the keys are stored in lower case.
set_alternate_extensions(opts, alternates) ==
    [opts EXCEPT !.alternate_extensions =
        [key \in { ToLowercase(k) : k \in DOMAIN alternates } |->
            alternates[CHOOSE k \in DOMAIN alternates : ToLowercase(k) = key]]]

\* remove_absolute_components: the components of a rooted path after its
\* root (Path::components, so without "." segments).
remove_absolute_components(path) == Components(path.segs)

\* join with the missing-root case falling back to the current directory.
join_no_root_onto_current_dir(opts, current_dir, second) ==
    IF second.rooted /\ opts.root_directory.some
    THEN Ok(opts.root_directory.path \o remove_absolute_components(second))
    ELSE Ok(current_dir \o second.segs)

\* join with a rooted link appended to the current directory, not the root.
join_rooted_onto_current_dir(opts, current_dir, second) ==
    IF second.rooted
    THEN IF opts.root_directory.some
         THEN Ok(current_dir \o remove_absolute_components(second))
         ELSE Err(TraversesParentDirectories)
    ELSE Ok(current_dir \o second.segs)

\* Options::join
join(opts, current_dir, second) ==
    IF second.rooted
    THEN IF opts.root_directory.some
         THEN Ok(opts.root_directory.path \o remove_absolute_components(second))
         ELSE Err(TraversesParentDirectories)
    ELSE Ok(current_dir \o second.segs)

\* canonicalize that resolves symlinks whatever follow_symlinks says.
canonicalize_always_following(fs, opts, path) ==
    LET first == dunce_canonicalize(fs, path)
    IN  IF ~first.ok THEN first
        ELSE IF is_dir(fs, first.val)
        THEN dunce_canonicalize(fs, Append(first.val, opts.default_file))
        ELSE first

\* canonicalize without the default file appended to a directory.
canonicalize_without_default_file(fs, opts, path) ==
    IF opts.follow_symlinks
    THEN dunce_canonicalize(fs, path)
    ELSE Ok(normalize_path(path))

\* canonicalize that appends the default file without looking for it.
canonicalize_default_file_unchecked(fs, opts, path) ==
    LET first == IF opts.follow_symlinks
                 THEN dunce_canonicalize(fs, path)
                 ELSE Ok(normalize_path(path))
    IN  IF ~first.ok THEN first
        ELSE IF is_dir(fs, first.val)
        THEN Ok(Append(first.val, opts.default_file))
        ELSE first

\* canonicalize that never follows a symlink, whatever the Options say.
canonicalize_never_following(fs, opts, path) ==
    LET first == normalize_path(path)
    IN  IF is_dir(fs, first)
        THEN LET pushed == Append(first, opts.default_file)
             IN  IF exists(fs, pushed) THEN Ok(pushed)
                 ELSE dunce_canonicalize(fs, pushed)
        ELSE Ok(first)

\* Options::canonicalize
canonicalize(fs, opts, path) ==
    LET f(p) == IF opts.follow_symlinks
                THEN dunce_canonicalize(fs, p)
                ELSE Ok(normalize_path(p))
        first == f(path)
    IN  IF ~first.ok THEN first
        ELSE IF is_dir(fs, first.val)
        THEN LET pushed == Append(first.val, opts.default_file)
             IN  IF opts.follow_symlinks \/ ~exists(fs, pushed)
                 THEN dunce_canonicalize(fs, pushed)
                 ELSE Ok(pushed)
        ELSE first

\* sanity_check that lets every path through.
sanity_check_skipped(opts, path) == Ok(<< >>)

\* sanity_check with the traversal flag read the wrong way round.
sanity_check_flag_inverted(opts, path) ==
    IF /\ opts.root_directory.some
       /\ ~(\/ ~opts.links_may_traverse_the_root_directory
            \/ StartsWith(path, opts.root_directory.path))
    THEN Err(TraversesParentDirectories)
    ELSE Ok(<< >>)

\* Options::sanity_check
sanity_check(opts, path) ==
    IF /\ opts.root_directory.some
       /\ ~(\/ opts.links_may_traverse_the_root_directory
            \/ StartsWith(path, opts.root_directory.path))
    THEN Err(TraversesParentDirectories)
    ELSE Ok(<< >>)

\* possible_names that lists the alternates last to first.
possible_names_alternates_reversed(opts, original) ==
    LET ext == Extension(original)
        key == ToLowercase(ext)
    IN  IF ext # None /\ key \in DOMAIN opts.alternate_extensions
        THEN LET alternatives == opts.alternate_extensions[key]
                 n == Len(alternatives)
             IN  <<original>> \o [i \in 1..n |->
                                     WithExtension(original, alternatives[n + 1 - i])]
        ELSE <<original>>

\* possible_names that puts the original path after its alternates.
possible_names_original_last(opts, original) ==
    LET ext == Extension(original)
        key == ToLowercase(ext)
    IN  IF ext # None /\ key \in DOMAIN opts.alternate_extensions
        THEN LET alternatives == opts.alternate_extensions[key]
             IN  [i \in 1..Len(alternatives) |->
                     WithExtension(original, alternatives[i])] \o <<original>>
        ELSE <<original>>

\* Options::possible_names
possible_names(opts, original) ==
    LET ext == Extension(original)
        key == ToLowercase(ext)
    IN  IF ext # None /\ key \in DOMAIN opts.alternate_extensions
        THEN LET alternatives == opts.alternate_extensions[key]
             IN  <<original>> \o [i \in 1..Len(alternatives) |->
                                     WithExtension(original, alternatives[i])]
        ELSE <<original>>

\* A candidate loop that goes on to the next candidate when the sanity check
\* turns one down.
RECURSIVE TryCandidates_skips_rejected(_, _, _, _, _)
TryCandidates_skips_rejected(fs, opts, candidates, i, tried) ==
    IF i > Len(candidates)
    THEN [result |-> Err(IoNotFound), tried |-> tried]
    ELSE LET canonical == canonicalize(fs, opts, candidates[i])
             now_tried == Append(tried, candidates[i])
         IN  IF canonical.ok /\ sanity_check(opts, canonical.val).ok
             THEN [result |-> canonical, tried |-> now_tried]
             ELSE TryCandidates_skips_rejected(fs, opts, candidates, i + 1, now_tried)

\* The candidate loop of resolve_link, from candidate i on; `tried` are the
\* candidates handed to canonicalize so far (the loop's trace line).
RECURSIVE TryCandidates(_, _, _, _, _)
TryCandidates(fs, opts, candidates, i, tried) ==
    IF i > Len(candidates)
    THEN [result |-> Err(IoNotFound), tried |-> tried]
    ELSE LET canonical == canonicalize(fs, opts, candidates[i])
             now_tried == Append(tried, candidates[i])
         IN  IF canonical.ok
             THEN LET checked == sanity_check(opts, canonical.val)
                  IN  [result |-> IF checked.ok THEN canonical ELSE checked,
                       tried |-> now_tried]
             ELSE TryCandidates(fs, opts, candidates, i + 1, now_tried)

\* resolve_link, with the candidates it looked up on the filesystem.
resolve_link_traced(fs, opts, current_directory, link_path) ==
    LET joined == join(opts, current_directory, link_path)
    IN  IF ~joined.ok
        THEN [result |-> joined, tried |-> << >>]
        ELSE TryCandidates(fs, opts, possible_names(opts, joined.val), 1, << >>)

\* resolve_link
resolve_link(fs, opts, current_directory, link_path) ==
    resolve_link_traced(fs, opts, current_directory, link_path).result

\* check_filesystem that does not look at what the custom validation says.
check_filesystem_traced_verdict_dropped(fs, opts, current_directory, path, fragment) ==
    LET resolved_location == resolve_link(fs, opts, current_directory, path)
    IN  IF ~resolved_location.ok
        THEN [result |-> resolved_location, calls |-> << >>]
        ELSE [result |-> Ok(<< >>),
              calls |-> <<[path |-> resolved_location.val,
                           fragment |-> fragment]>>]

\* check_filesystem, with the calls it made to the custom validation.
check_filesystem_traced(fs, opts, current_directory, path, fragment) ==
    LET resolved_location == resolve_link(fs, opts, current_directory, path)
    IN  IF ~resolved_location.ok
        THEN [result |-> resolved_location, calls |-> << >>]
        ELSE LET verdict == run_custom_validation(opts, resolved_location.val,
                                                  fragment)
             IN  [result |-> IF verdict.ok THEN Ok(<< >>) ELSE verdict,
                  calls |-> <<[path |-> resolved_location.val,
                               fragment |-> fragment]>>]

\* check_filesystem
check_filesystem(fs, opts, current_directory, path, fragment) ==
    check_filesystem_traced(fs, opts, current_directory, path, fragment).result

\* ------------------------------------------------------------------ Cache

Urls == { "https://a/", "https://b/" }

\* A URL that names a section of the document behind the first one; the
\* cache keeps an entry of its own for it.
FragmentUrls == { "https://a/#sec" }
CacheKeys == Urls \cup FragmentUrls

\* Option<&CacheEntry>: no entry, or CacheEntry::new(timestamp, valid).
NoEntry == [some |-> FALSE, timestamp |-> 0, valid |-> FALSE]
\* CacheEntry::new that stamps every entry with the epoch.
CacheEntryNew_epoch(timestamp, valid) ==
    [some |-> TRUE, timestamp |-> 0, valid |-> valid]

\* CacheEntry::new(timestamp, valid)
CacheEntryNew(timestamp, valid) ==
    [some |-> TRUE, timestamp |-> timestamp, valid |-> valid]

\* Cache::new
CacheNew == [u \in CacheKeys |-> NoEntry]

\* Cache::lookup
CacheLookup(c, url) == c[url]

\* Cache::insert that forgets every other url.
CacheInsert_alone(c, url, entry) ==
    [u \in CacheKeys |-> IF u = url THEN entry ELSE NoEntry]

\* Cache::insert
CacheInsert(c, url, entry) == [c EXCEPT ![url] = entry]

\* Cache::clear
CacheClear(c) == [u \in CacheKeys |-> NoEntry]

\* SystemTime::elapsed that measures the distance to the clock either way.
Elapsed_either_way(timestamp, t) ==
    IF timestamp <= t THEN Ok(t - timestamp) ELSE Ok(timestamp - t)

\* SystemTime::elapsed at clock reading t: an error when the timestamp is
\* later than the clock.
Elapsed(timestamp, t) ==
    IF timestamp <= t THEN Ok(t - timestamp) ELSE Err("SystemTimeError")

\* url_is_still_valid with the comparison `<=` in place of `<`.
url_is_still_valid_inclusive(c, url, timeout, t) ==
    LET entry == CacheLookup(c, url)
    IN  /\ entry.some
        /\ entry.valid
        /\ Elapsed(entry.timestamp, t).ok
        /\ Elapsed(entry.timestamp, t).val <= timeout

\* Cache::url_is_still_valid, at clock reading t.
url_is_still_valid(c, url, timeout, t) ==
    LET entry == CacheLookup(c, url)
    IN  IF entry.some
        THEN IF entry.valid
             THEN LET time_since_check_was_done == Elapsed(entry.timestamp, t)
                  IN  IF time_since_check_was_done.ok
                      THEN time_since_check_was_done.val < timeout
                      ELSE FALSE
             ELSE FALSE
        ELSE FALSE

\* ------------------------------------------------------------- check_web

\* Context::cache_timeout: 24 hours, one day.
cache_timeout == 1

\* Context::cache of the trait's default implementation: None, no handle.
Context_cache == FALSE

\* BasicContext::cache: Some(guard) of its own Mutex<Cache>, always.
BasicContext_cache == TRUE

\* already_valid that never finds the url fresh.
already_valid_never(has_cache_, c, url, t) == FALSE

\* already_valid that takes any cached entry for a fresh success.
already_valid_any_entry(has_cache_, c, url, t) ==
    has_cache_ /\ CacheLookup(c, url).some

\* already_valid: ctx.cache() is Some exactly when has_cache_.
already_valid(has_cache_, c, url, t) ==
    IF has_cache_ THEN url_is_still_valid(c, url, cache_timeout, t) ELSE FALSE

\* update_cache that records successful probes only.
update_cache_successes_only(has_cache_, c, url, entry) ==
    IF has_cache_ /\ entry.valid THEN CacheInsert(c, url, entry) ELSE c

\* update_cache that writes to a cache the context does not hand out.
update_cache_without_handle(has_cache_, c, url, entry) ==
    CacheInsert(c, url, entry)

\* update_cache that lets no failure replace a recorded success.
update_cache_keeps_success(has_cache_, c, url, entry) ==
    IF has_cache_ /\ (entry.valid \/ ~CacheLookup(c, url).valid)
    THEN CacheInsert(c, url, entry)
    ELSE c

\* update_cache
update_cache(has_cache_, c, url, entry) ==
    IF has_cache_ THEN CacheInsert(c, url, entry) ELSE c

\* Reason::Web
Web == "Web"

\* ------------------------------------------------------------- Category

\* The hrefs of the model and Category::categorise on them: two URLs, a
\* relative path, a rooted path and a string that is neither a URL nor a
\* path (it holds a space); then a URL and two paths that name a section,
\* and two more paths: a markdown file and a file outside every site.
Hrefs == { "https://a/", "https://b/", "foo", "/foo", "a b" }
FragmentHrefs == { "https://a/#sec", "foo#sec", "nope#sec" }
MoreHrefs == { "./missing.md", "/etc/passwd" }

categorise(href) ==
    CASE href \in CacheKeys -> [kind |-> "Url", url |-> href]
      [] href = "foo"  ->
            [kind |-> "FileSystem", path |-> Rel(<<"foo">>), fragment |-> None]
      [] href = "/foo" ->
            [kind |-> "FileSystem", path |-> Abs(<<"foo">>), fragment |-> None]
      [] href = "foo#sec" ->
            [kind |-> "FileSystem", path |-> Rel(<<"foo">>), fragment |-> "sec"]
      [] href = "nope#sec" ->
            [kind |-> "FileSystem", path |-> Rel(<<"nope">>), fragment |-> "sec"]
      [] href = "./missing.md" ->
            [kind |-> "FileSystem", path |-> Rel(<<".", "missing.md">>),
             fragment |-> None]
      [] href = "/etc/passwd" ->
            [kind |-> "FileSystem", path |-> Abs(<<"etc", "passwd">>),
             fragment |-> None]
      [] OTHER         -> [kind |-> "None"]

\* Category::categorise on the text of an href. An href is a sequence of
\* characters: a letter, the colon that ends a scheme, the marks that start
\* a fragment and a query, and a space, which no URI path or query holds.
\* The schemes written with these characters are not special ones (http,
\* https, ws, wss, ftp, file), so that Url::parse takes whatever follows
\* their colon.
HrefChars == { "a", ":", "#", "?", " " }

HrefStrings == UNION { [1..n -> HrefChars] : n \in 0..MaxHrefLen }

\* Option<String>
NoString == [some |-> FALSE]
SomeString(s) == [some |-> TRUE, val |-> s]

\* str::find(pat): the index of the first match, 0 for None.
find(src, pat) ==
    IF \E i \in 1..Len(src) : src[i] = pat
    THEN CHOOSE i \in 1..Len(src) :
            /\ src[i] = pat
            /\ \A j \in 1..(i - 1) : src[j] # pat
    ELSE 0

\* Url::parse drops the spaces at both ends of its input.
TrimSpaces(src) ==
    LET kept == { i \in 1..Len(src) : src[i] # " " }
    IN  IF kept = {} THEN << >>
        ELSE SubSeq(src, CHOOSE i \in kept : \A j \in kept : i <= j,
                         CHOOSE i \in kept : \A j \in kept : j <= i)

\* src.parse::<Url>(): the input, trimmed, starts with a scheme (letters,
\* then a colon); without one it is a relative URL and there is no base.
RelativeUrlWithoutBase == "RelativeUrlWithoutBase"
Url_parse(src) ==
    LET input == TrimSpaces(src)
        colon == find(input, ":")
    IN  IF colon > 1 /\ \A k \in 1..(colon - 1) : input[k] = "a"
        THEN Ok([scheme |-> SubSeq(input, 1, colon - 1),
                 rest |-> SubSeq(input, colon + 1, Len(input))])
        ELSE Err(RelativeUrlWithoutBase)

\* path.parse::<PathAndQuery>(): the bytes up to the first `?` or `#` are
\* path bytes, the bytes of the query up to a `#` are query bytes, the rest
\* is cut off; any other byte is an InvalidUriChar.
InvalidUriChar == "InvalidUriChar"
IsPathByte(c) == c \in { "a", ":" }
IsQueryByte(c) == c \in { "a", ":", "?" }

PathAndQuery_parse(src) ==
    LET marks == { i \in 1..Len(src) : src[i] \in { "?", "#" } }
        stop == IF marks = {} THEN Len(src) + 1
                ELSE CHOOSE i \in marks : \A j \in marks : i <= j
        mark == IF stop <= Len(src) /\ src[stop] = "?" THEN stop ELSE 0
        hashes == { i \in stop..Len(src) : src[i] = "#" }
        end == IF hashes = {} THEN Len(src) + 1
               ELSE CHOOSE i \in hashes : \A j \in hashes : i <= j
    IN  IF /\ \A i \in 1..(stop - 1) : IsPathByte(src[i])
           /\ mark # 0 => \A i \in (mark + 1)..(end - 1) : IsQueryByte(src[i])
        THEN Ok([data |-> SubSeq(src, 1, end - 1), query |-> mark])
        ELSE Err(InvalidUriChar)

\* PathAndQuery::path: the data before the query, "/" when that is empty.
PathAndQuery_path(path_and_query) ==
    LET ret == IF path_and_query.query = 0 THEN path_and_query.data
               ELSE SubSeq(path_and_query.data, 1, path_and_query.query - 1)
    IN  IF ret = << >> THEN <<"/">> ELSE ret

\* The path parse tried before the URL parse.
Category_categorise_path_first(src) ==
    LET hash == find(src, "#")
        path == IF hash # 0 THEN SubSeq(src, 1, hash - 1) ELSE src
        fragment == IF hash # 0 THEN SomeString(SubSeq(src, hash + 1, Len(src)))
                    ELSE NoString
        path_and_query == PathAndQuery_parse(path)
        url == Url_parse(src)
    IN  IF path_and_query.ok
        THEN [kind |-> "FileSystem",
              path |-> PathAndQuery_path(path_and_query.val),
              fragment |-> fragment]
        ELSE IF url.ok THEN [kind |-> "Url", url |-> url.val]
        ELSE [kind |-> "None"]

\* Category::categorise(src)
Category_categorise(src) ==
    LET url == Url_parse(src)
        hash == find(src, "#")
        path == IF hash # 0 THEN SubSeq(src, 1, hash - 1) ELSE src
        fragment == IF hash # 0 THEN SomeString(SubSeq(src, hash + 1, Len(src)))
                    ELSE NoString
        path_and_query == PathAndQuery_parse(path)
    IN  IF url.ok THEN [kind |-> "Url", url |-> url.val]
        ELSE IF path_and_query.ok
        THEN [kind |-> "FileSystem",
              path |-> PathAndQuery_path(path_and_query.val),
              fragment |-> fragment]
        ELSE [kind |-> "None"]

\* -------------------------------------------------- Outcome and Outcomes

OutcomeValid(link) == [kind |-> "Valid", link |-> link, reason |-> None]
OutcomeInvalid(link, reason) == [kind |-> "Invalid", link |-> link, reason |-> reason]
OutcomeIgnored(link) == [kind |-> "Ignored", link |-> link, reason |-> None]
OutcomeUnknownCategory(link) ==
    [kind |-> "UnknownCategory", link |-> link, reason |-> None]

\* from_result that takes every result for a success.
from_result_always_valid(link, result) == OutcomeValid(link)

\* Outcome::from_result
from_result(link, result) ==
    IF result.ok THEN OutcomeValid(link) ELSE OutcomeInvalid(link, result.err)

\* Outcomes::empty
OutcomesEmpty ==
    [valid |-> << >>, invalid |-> << >>, ignored |-> << >>,
     unknown_category |-> << >>]

\* Extend<Outcome> that forgets the broken links.
ExtendOutcome_drops_invalid(o, outcome) ==
    CASE outcome.kind = "Valid" ->
            [o EXCEPT !.valid = Append(@, outcome.link)]
      [] outcome.kind = "Ignored" ->
            [o EXCEPT !.ignored = Append(@, outcome.link)]
      [] outcome.kind = "UnknownCategory" ->
            [o EXCEPT !.unknown_category = Append(@, outcome.link)]
      [] OTHER -> o

\* impl Extend<Outcome> for Outcomes, for one outcome.
ExtendOutcome(o, outcome) ==
    CASE outcome.kind = "Valid" ->
            [o EXCEPT !.valid = Append(@, outcome.link)]
      [] outcome.kind = "Invalid" ->
            [o EXCEPT !.invalid =
                Append(@, [link |-> outcome.link, reason |-> outcome.reason])]
      [] outcome.kind = "Ignored" ->
            [o EXCEPT !.ignored = Append(@, outcome.link)]
      [] outcome.kind = "UnknownCategory" ->
            [o EXCEPT !.unknown_category = Append(@, outcome.link)]

\* Outcomes::merge that forgets the ignored links of `other`.
merge_ignored_dropped(self, other) ==
    [valid |-> self.valid \o other.valid,
     invalid |-> self.invalid \o other.invalid,
     ignored |-> self.ignored,
     unknown_category |-> self.unknown_category \o other.unknown_category]

\* Outcomes::merge(&mut self, other): what it leaves in self.
merge(self, other) ==
    [valid |-> self.valid \o other.valid,
     invalid |-> self.invalid \o other.invalid,
     ignored |-> self.ignored \o other.ignored,
     unknown_category |-> self.unknown_category \o other.unknown_category]

\* impl Extend<Outcomes> for Outcomes: merge each item in turn.
RECURSIVE ExtendOutcomes(_, _)
ExtendOutcomes(self, items) ==
    IF items = << >> THEN self
    ELSE ExtendOutcomes(merge(self, Head(items)), Tail(items))

\* ------------------------------------------------ the resolver's state

VARIABLES
    fs,                 \* the filesystem: canonical path -> node
    options,            \* the Options under construction, then in use
    rpc,                \* "config" | "config_error" | "resolved"
    current_directory,  \* resolve_link's arguments ...
    link_path,
    resolved,           \* ... its result ...
    tried               \* ... and the candidates it looked up

rvars == <<fs, options, rpc, current_directory, link_path, resolved, tried>>

\* ---------------------------------- the cache's and the validation's state

VARIABLES
    cache,        \* Cache::entries: url -> entry
    now,          \* the system clock
    query,        \* the last url_is_still_valid call made from outside and its answer
    has_cache,    \* whether Context::cache() hands out a cache
    concurrency,  \* Context::concurrency()
    ignored,      \* the hrefs Context::should_ignore() accepts
    links,        \* the batch handed to validate: a sequence of hrefs
    next_link,    \* how many links the stream has handed out
    pc,           \* per link: "queued" | "probing" | "done"
    probes,       \* per link: the HEAD requests sent for it
    log,          \* per link: what its check did, in order
    outcomes,     \* the Outcomes collected so far
    finished,     \* validate has returned
    checks,       \* per check_web call run on a thread of its own: where it
                  \* is, whether it holds the cache's MutexGuard, the
                  \* CacheEntry it built and its result
    previous,     \* what an earlier validate call on the same batch and
                  \* Context returned and did, if there was one
    checked,      \* the last check_filesystem call made from outside: its
                  \* fragment, its result and its calls to the custom validation
    parsed,       \* the last Category::categorise call made from outside:
                  \* its href and the Option<Category> it returned
    merging,      \* the last Outcomes::merge calls made from outside: their
                  \* operands and what they left in self
    anchors       \* the sections that exist in the documents the links name

cvars == <<cache, now, query>>
xvars == <<checks, previous, checked, parsed, merging, anchors>>
vvars == <<has_cache, concurrency, ignored, links, next_link, pc, probes, log,
           outcomes, finished, xvars>>

vars == <<rvars, cvars, vvars>>

NoQuery ==
    [url |-> None, timeout |-> 0, at |-> 0, found |-> NoEntry, answer |-> FALSE]

\* The resolver at rest: BasicContext's default Options, over a filesystem.
RIdle ==
    /\ options = OptionsNew
    /\ rpc = "config"
    /\ current_directory = << >>
    /\ link_path = Rel(<< >>)
    /\ resolved = Err(None)
    /\ tried = << >>

\* The cache at rest: Cache::new.
CIdle ==
    /\ cache = CacheNew
    /\ now = 0
    /\ query = NoQuery

\* No earlier validate call.
NoRun == [ran |-> FALSE]

\* No check_filesystem call made from outside.
NoCheck == [fragment |-> None, result |-> Err(None), calls |-> << >>]

\* No Category::categorise call made from outside.
NoParse == [called |-> FALSE]

\* No Outcomes::merge call made from outside.
NoMerge == [called |-> FALSE]

\* No check_web call of its own under way, no earlier validate call, no call
\* from outside.
XIdle ==
    /\ checks = << >>
    /\ previous = NoRun
    /\ checked = NoCheck
    /\ parsed = NoParse
    /\ merging = NoMerge
    /\ anchors = {}

\* No validation under way.
VIdle ==
    /\ has_cache = TRUE
    /\ concurrency = 1
    /\ ignored = {}
    /\ links = << >>
    /\ next_link = 0
    /\ pc = << >>
    /\ probes = << >>
    /\ log = << >>
    /\ outcomes = OutcomesEmpty
    /\ finished = FALSE
    /\ XIdle

\* The filesystems of the model: the fixed tree
\*     /r   /r/foo   /r/foo/index.html   /r/foo/index.md   /r/out -> ..
\* with or without /index.html, and with /r/index.html absent, a file or a
\* symlink to /index.html.
BaseFS ==
    (<<"r">> :> Dir) @@ (<<"r", "foo">> :> Dir)
        @@ (<<"r", "foo", "index.html">> :> File)
        @@ (<<"r", "foo", "index.md">> :> File)
        @@ (<<"r", "out">> :> Symlink(Rel(<<"..">>)))

OutsideIndex == <<"index.html">> :> File
RootIndexFile == <<"r", "index.html">> :> File
RootIndexLink == <<"r", "index.html">> :> Symlink(Abs(<<"index.html">>))

Empty == [x \in {} |-> Dir]

FileSystems ==
    { BaseFS @@ a @@ b :
        a \in {Empty, OutsideIndex},
        b \in {Empty, RootIndexFile, RootIndexLink} }

\* The current directories, the roots handed to with_root_directory and the
\* link paths of the model.
Directories == { << >>, <<"r">>, <<"r", "foo">> }
RootChoices == { <<"r">>, <<"nope">> }
Segments == { ".", "..", "foo", "index.md", "out" }
SegmentSeqs == UNION { [1..n -> Segments] : n \in 0..MaxLinkLen }
LinkPaths == { Rel(s) : s \in SegmentSeqs } \cup { Abs(s) : s \in SegmentSeqs }

RInit ==
    /\ fs \in FileSystems
    /\ RIdle
    /\ CIdle
    /\ VIdle

\* Options::with_root_directory(root)
WithRootDirectory(root) ==
    /\ rpc = "config"
    /\ LET r == with_root_directory(fs, options, root)
       IN  IF r.ok
           THEN options' = r.val /\ rpc' = rpc
           ELSE options' = options /\ rpc' = "config_error"
    /\ UNCHANGED <<fs, current_directory, link_path, resolved, tried>>
    /\ UNCHANGED <<cvars, vvars>>

\* Options::set_links_may_traverse_the_root_directory(value)
SetLinksMayTraverse(value) ==
    /\ rpc = "config"
    /\ options' = set_links_may_traverse_the_root_directory(options, value)
    /\ UNCHANGED <<fs, rpc, current_directory, link_path, resolved, tried>>
    /\ UNCHANGED <<cvars, vvars>>

\* Options::set_follow_symlinks(value)
SetFollowSymlinks(value) ==
    /\ rpc = "config"
    /\ options' = set_follow_symlinks(options, value)
    /\ UNCHANGED <<fs, rpc, current_directory, link_path, resolved, tried>>
    /\ UNCHANGED <<cvars, vvars>>

\* resolve_link(dir, link, &options)
ResolveLink(dir, link) ==
    /\ rpc = "config"
    /\ LET r == resolve_link_traced(fs, options, dir, link)
       IN  /\ resolved' = r.result
           /\ tried' = r.tried
    /\ current_directory' = dir
    /\ link_path' = link
    /\ rpc' = "resolved"
    /\ UNCHANGED <<fs, options>>
    /\ UNCHANGED <<cvars, vvars>>

RNext ==
    \/ \E root \in RootChoices : WithRootDirectory(root)
    \/ \E value \in BOOLEAN : SetLinksMayTraverse(value)
    \/ \E value \in BOOLEAN : SetFollowSymlinks(value)
    \/ \E dir \in Directories, link \in LinkPaths : ResolveLink(dir, link)

SpecResolve == RInit /\ [][RNext]_vars

\* ------------------------------------- the resolver with other alternates

\* The filesystems above, with or without /r/index.txt.
RootIndexTxt == <<"r", "index.txt">> :> File
AltFileSystems == { f @@ c : f \in FileSystems, c \in {Empty, RootIndexTxt} }

\* The mappings handed to set_alternate_extensions: none, and md (in either
\* case) to txt and html in both orders.
AlternateChoices ==
    { [e \in {} |-> << >>],
      [e \in {"md"} |-> <<"html", "txt">>],
      [e \in {"MD"} |-> <<"txt", "html">>] }

\* Links to an index.md, by several ways; a link with an extension that has
\* no alternates and one with no extension.
AltLinkPaths ==
    { Rel(<<"index.md">>), Rel(<<"index.MD">>), Abs(<<"index.md">>),
      Rel(<<"..", "index.md">>), Rel(<<"foo", "..", "index.md">>),
      Rel(<<"foo", "index.md">>), Rel(<<"out", "index.md">>),
      Rel(<<"index.html">>), Rel(<<"foo">>) }

AltInit ==
    /\ fs \in AltFileSystems
    /\ RIdle
    /\ CIdle
    /\ VIdle

\* Options::set_alternate_extensions(alternates)
SetAlternateExtensions(alternates) ==
    /\ rpc = "config"
    /\ options' = set_alternate_extensions(options, alternates)
    /\ UNCHANGED <<fs, rpc, current_directory, link_path, resolved, tried>>
    /\ UNCHANGED <<cvars, vvars>>

AltNext ==
    \/ \E root \in RootChoices : WithRootDirectory(root)
    \/ \E value \in BOOLEAN : SetLinksMayTraverse(value)
    \/ \E value \in BOOLEAN : SetFollowSymlinks(value)
    \/ \E alternates \in AlternateChoices : SetAlternateExtensions(alternates)
    \/ \E dir \in Directories, link \in AltLinkPaths : ResolveLink(dir, link)

SpecAlternates == AltInit /\ [][AltNext]_vars

\* ------------------------------------------- check_filesystem on its own

Fragments == { None, "sec" }

\* The links handed to check_filesystem: those above, a directory, a path
\* that does not exist and a rooted path.
CheckLinkPaths ==
    AltLinkPaths \cup { Rel(<<"foo">>), Rel(<<"foo", "foo">>), Abs(<<"foo">>) }

\* Options::set_custom_validation(custom_validation)
SetCustomValidation(custom_validation) ==
    /\ rpc = "config"
    /\ options' = set_custom_validation(options, custom_validation)
    /\ UNCHANGED <<fs, rpc, current_directory, link_path, resolved, tried>>
    /\ UNCHANGED <<cvars, vvars>>

\* check_filesystem(dir, link, fragment, ctx), ctx holding the Options.
CheckFilesystem(dir, link, fragment) ==
    /\ rpc = "config"
    /\ LET r == resolve_link_traced(fs, options, dir, link)
       IN  /\ resolved' = r.result
           /\ tried' = r.tried
    /\ checked' = [fragment |-> fragment]
                     @@ check_filesystem_traced(fs, options, dir, link, fragment)
    /\ current_directory' = dir
    /\ link_path' = link
    /\ rpc' = "checked"
    /\ UNCHANGED <<fs, options>>
    /\ UNCHANGED <<cvars, has_cache, concurrency, ignored, links, next_link, pc,
                   probes, log, outcomes, finished, checks, previous, parsed,
                   merging, anchors>>

CheckNext ==
    \/ \E root \in RootChoices : WithRootDirectory(root)
    \/ \E value \in BOOLEAN : SetLinksMayTraverse(value)
    \/ \E value \in BOOLEAN : SetFollowSymlinks(value)
    \/ \E custom_validation \in CustomValidations :
          SetCustomValidation(custom_validation)
    \/ \E dir \in Directories, link \in CheckLinkPaths, fragment \in Fragments :
          CheckFilesystem(dir, link, fragment)

SpecCheck == RInit /\ [][CheckNext]_vars

\* --------------------------------- the resolver under a root deeper down

\* The roots and links used to leave a root: files and directories beside
\* and above the root /r/foo, reached directly and through the symlink
\* /r/out -> .. .
TraverseRoots == { <<"r">>, <<"r", "foo">> }
TraverseLinkPaths ==
    { Rel(<<"..", "index.html">>), Rel(<<"..", "..", "index.html">>),
      Rel(<<"..">>), Rel(<<"index.md">>), Rel(<<"..", "foo", "index.md">>),
      Rel(<<"..", "out", "index.html">>), Rel(<<"..", "out", "r", "index.html">>),
      Rel(<<"..", "nope">>), Rel(<<"index.html">>), Rel(<<"out">>),
      Abs(<<"index.html">>), Abs(<<"..", "index.html">>) }

TraverseNext ==
    \/ \E root \in TraverseRoots : WithRootDirectory(root)
    \/ \E value \in BOOLEAN : SetLinksMayTraverse(value)
    \/ \E value \in BOOLEAN : SetFollowSymlinks(value)
    \/ \E dir \in Directories, link \in TraverseLinkPaths : ResolveLink(dir, link)

SpecTraverse == RInit /\ [][TraverseNext]_vars

\* ---------------------------------------------------- the cache alone

CInit ==
    /\ fs = BaseFS
    /\ RIdle
    /\ CIdle
    /\ VIdle

\* The clock moves on.
Tick ==
    /\ ~finished
    /\ now < MaxTime
    /\ now' = now + 1
    /\ UNCHANGED <<cache, query, rvars, vvars>>

\* Cache::insert(url, CacheEntry::new(timestamp, valid))
Insert(url, timestamp, valid) ==
    /\ cache' = CacheInsert(cache, url, CacheEntryNew(timestamp, valid))
    /\ UNCHANGED <<now, query, rvars, vvars>>

\* Cache::clear()
Clear ==
    /\ cache' = CacheClear(cache)
    /\ UNCHANGED <<now, query, rvars, vvars>>

\* Cache::url_is_still_valid(url, timeout), with what its self.lookup(url)
\* returned.
UrlIsStillValid(url, timeout) ==
    /\ query' = [url |-> url, timeout |-> timeout, at |-> now,
                 found |-> CacheLookup(cache, url),
                 answer |-> url_is_still_valid(cache, url, timeout, now)]
    /\ UNCHANGED <<cache, now, rvars, vvars>>

CNext ==
    \/ Tick
    \/ \E url \in Urls, timestamp \in 0..MaxTime, valid \in BOOLEAN :
          Insert(url, timestamp, valid)
    \/ Clear
    \/ \E url \in Urls, timeout \in 0..MaxTimeout : UrlIsStillValid(url, timeout)

SpecCache == CInit /\ [][CNext]_vars

\* --------------------------------------------------------------- validate

\* The directory validate is called with, and the filesystem under it.
ValidateDirectory == <<"r">>
ValidateFS == BaseFS @@ RootIndexFile

Batches == UNION { [1..n -> Hrefs] : n \in 0..MaxLinks }
IgnoreChoices == { {}, {"https://b/", "/foo", "a b"} }

Init ==
    /\ fs = ValidateFS
    /\ RIdle
    /\ CIdle
    /\ has_cache \in {Context_cache, BasicContext_cache}
    /\ concurrency \in 1..MaxConcurrency
    /\ ignored \in IgnoreChoices
    /\ links \in Batches
    /\ next_link = 0
    /\ pc = [i \in 1..Len(links) |-> "queued"]
    /\ probes = [i \in 1..Len(links) |-> 0]
    /\ log = [i \in 1..Len(links) |-> << >>]
    /\ outcomes = OutcomesEmpty
    /\ finished = FALSE
    /\ XIdle

\* Link i of the batch; its place in the batch tells two uses of a href apart.
Link(i) == [id |-> i, href |-> links[i]]

\* A Context that ignores nothing, whatever it was told.
should_ignore_never(link) == FALSE

\* Context::should_ignore
should_ignore(link) == link.href \in ignored

\* The checks in flight: started and not yet done.
InFlight == { i \in 1..Len(links) : pc[i] = "probing" }

\* buffer_unordered that fills its queue without looking at its size.
HasRoom_unbounded == TRUE

\* buffer_unordered that runs one check at a time, whatever its size.
HasRoom_one_at_a_time == InFlight = {}

\* buffer_unordered that keeps one place of its queue free.
HasRoom_one_short == Cardinality(InFlight) < concurrency - 1

\* buffer_unordered's test before it takes a link from the stream.
HasRoom == Cardinality(InFlight) < concurrency

\* buffer_unordered takes the next link from the stream.
CanStart == next_link < Len(links) /\ HasRoom

\* validate_one up to its first await: the link's outcome, or a HEAD request
\* under way.
FirstPoll(link) ==
    IF should_ignore(link)
    THEN [done |-> TRUE, outcome |-> OutcomeIgnored(link), log |-> << >>]
    ELSE LET category == categorise(link.href)
         IN  CASE category.kind = "FileSystem" ->
                    [done |-> TRUE,
                     outcome |-> from_result(link,
                         check_filesystem(fs, options, ValidateDirectory,
                                          category.path, category.fragment)),
                     log |-> <<"categorise", "check_filesystem">>]
               [] category.kind = "Url" ->
                    LET read == <<"categorise">> \o
                                (IF has_cache THEN <<"cache_read">> ELSE << >>)
                    IN  IF already_valid(has_cache, cache, category.url, now)
                        THEN [done |-> TRUE,
                              outcome |-> from_result(link, Ok(<< >>)),
                              log |-> read]
                        ELSE [done |-> FALSE,
                              outcome |-> OutcomeValid(link),
                              log |-> read \o <<"head">>]
               [] category.kind = "None" ->
                    [done |-> TRUE, outcome |-> OutcomeUnknownCategory(link),
                     log |-> <<"categorise">>]

\* validate: the stream hands the next link to validate_one, which runs to
\* its first await.  This happens in the same poll that found room in the
\* queue, so no response is handled in between.
Start ==
    /\ ~finished
    /\ CanStart
    /\ LET i == next_link + 1
           r == FirstPoll(Link(i))
       IN  /\ next_link' = i
           /\ log' = [log EXCEPT ![i] = r.log]
           /\ IF r.done
              THEN /\ pc' = [pc EXCEPT ![i] = "done"]
                   /\ outcomes' = ExtendOutcome(outcomes, r.outcome)
                   /\ probes' = probes
              ELSE /\ pc' = [pc EXCEPT ![i] = "probing"]
                   /\ outcomes' = outcomes
                   /\ probes' = [probes EXCEPT ![i] = @ + 1]
    /\ UNCHANGED <<has_cache, concurrency, ignored, links, finished>>
    /\ UNCHANGED <<rvars, cvars, xvars>>

\* check_web after its await: the HEAD request of link i has ended, well
\* (ok) or not; the cache is updated and the link's outcome collected.
Response(i, ok) ==
    /\ ~finished
    /\ ~CanStart
    /\ i \in InFlight
    /\ LET url == categorise(links[i]).url
           result == IF ok THEN Ok(<< >>) ELSE Err(Web)
           entry == CacheEntryNew(now, result.ok)
       IN  /\ cache' = update_cache(has_cache, cache, url, entry)
           /\ log' = [log EXCEPT ![i] =
                        @ \o <<IF ok THEN "head_ok" ELSE "head_err">>
                          \o (IF has_cache THEN <<"cache_write">> ELSE << >>)]
           /\ outcomes' = ExtendOutcome(outcomes, from_result(Link(i), result))
    /\ pc' = [pc EXCEPT ![i] = "done"]
    /\ UNCHANGED <<has_cache, concurrency, ignored, links, next_link, probes,
                   finished>>
    /\ UNCHANGED <<rvars, now, query, xvars>>

\* validate: the stream is exhausted and the queue empty; collect returns.
Finish ==
    /\ ~finished
    /\ next_link = Len(links)
    /\ InFlight = {}
    /\ finished' = TRUE
    /\ UNCHANGED <<has_cache, concurrency, ignored, links, next_link, pc,
                   probes, log, outcomes>>
    /\ UNCHANGED <<rvars, cvars, xvars>>

Next ==
    \/ Tick
    \/ Start
    \/ \E i \in 1..Len(links), ok \in BOOLEAN : Response(i, ok)
    \/ Finish

Spec == Init /\ [][Next]_vars

\* ------------------------- check_web calls on threads of their own

\* check_web is public and a Context is shared by reference, so its calls may
\* run on several threads; here each runs on its own, one statement that
\* touches the Mutex at a time.  The checks of one validate run on one task
\* and interleave only at the await of head(), which is the case where each
\* call below runs from one await to the next without another in between.

\* A check_web(url) call before its first statement.
CheckStart(url) ==
    [url |-> url, at |-> "start", guard |-> FALSE, entry |-> NoEntry,
     result |-> "pending"]

CheckBatches == UNION { [1..n -> Urls] : n \in 1..MaxLinks }

LockInit ==
    /\ fs = ValidateFS
    /\ RIdle
    /\ CIdle
    /\ has_cache \in BOOLEAN
    /\ concurrency = 1
    /\ ignored = {}
    /\ links = << >>
    /\ next_link = 0
    /\ pc = << >>
    /\ probes = << >>
    /\ log = << >>
    /\ outcomes = OutcomesEmpty
    /\ finished = FALSE
    /\ \E batch \in CheckBatches :
          checks = [i \in 1..Len(batch) |-> CheckStart(batch[i])]
    /\ previous = NoRun
    /\ checked = NoCheck
    /\ parsed = NoParse
    /\ merging = NoMerge
    /\ anchors = {}

\* The Mutex of BasicContext::cache is free: no check holds its guard.
LockFree == \A i \in 1..Len(checks) : ~checks[i].guard

\* A MutexGuard that outlives the function that took it.
drop_guard_forgotten(check) == check

\* The MutexGuard goes out of scope where already_valid and update_cache
\* return.
drop_guard(check) == [check EXCEPT !.guard = FALSE]

\* check_web calls already_valid, which asks the Context for the cache:
\* with a cache, Mutex::lock waits until the Mutex is free and hands out the
\* guard; with none, already_valid is false and the HEAD request goes out.
CallAlreadyValid(i) ==
    /\ checks[i].at = "start"
    /\ IF has_cache
       THEN /\ LockFree
            /\ checks' = [checks EXCEPT ![i].at = "already_valid",
                                        ![i].guard = TRUE]
       ELSE checks' = [checks EXCEPT ![i].at = "head"]
    /\ UNCHANGED <<has_cache, concurrency, ignored, links, next_link, pc,
                   probes, log, outcomes, finished, previous, checked, parsed,
                   merging, anchors>>
    /\ UNCHANGED <<rvars, cvars>>

\* already_valid looks the url up and returns; check_web returns Ok on a
\* fresh entry and sends the HEAD request otherwise.
AlreadyValidReturns(i) ==
    /\ checks[i].at = "already_valid"
    /\ LET fresh == url_is_still_valid(cache, checks[i].url, cache_timeout, now)
           after == IF fresh
                    THEN [checks[i] EXCEPT !.at = "done", !.result = "ok"]
                    ELSE [checks[i] EXCEPT !.at = "head"]
       IN  checks' = [checks EXCEPT ![i] = drop_guard(after)]
    /\ UNCHANGED <<has_cache, concurrency, ignored, links, next_link, pc,
                   probes, log, outcomes, finished, previous, checked, parsed,
                   merging, anchors>>
    /\ UNCHANGED <<rvars, cvars>>

\* head().await returns and check_web builds the CacheEntry.
HeadReturns(i, ok) ==
    /\ checks[i].at = "head"
    /\ checks' = [checks EXCEPT ![i].at = "returned",
                                ![i].entry = CacheEntryNew(now, ok),
                                ![i].result = IF ok THEN "ok" ELSE "err"]
    /\ UNCHANGED <<has_cache, concurrency, ignored, links, next_link, pc,
                   probes, log, outcomes, finished, previous, checked, parsed,
                   merging, anchors>>
    /\ UNCHANGED <<rvars, cvars>>

\* check_web calls update_cache, which asks the Context for the cache.
CallUpdateCache(i) ==
    /\ checks[i].at = "returned"
    /\ IF has_cache
       THEN /\ LockFree
            /\ checks' = [checks EXCEPT ![i].at = "update_cache",
                                        ![i].guard = TRUE]
       ELSE checks' = [checks EXCEPT ![i].at = "done"]
    /\ UNCHANGED <<has_cache, concurrency, ignored, links, next_link, pc,
                   probes, log, outcomes, finished, previous, checked, parsed,
                   merging, anchors>>
    /\ UNCHANGED <<rvars, cvars>>

\* update_cache inserts the entry and returns; check_web returns the result.
UpdateCacheReturns(i) ==
    /\ checks[i].at = "update_cache"
    /\ cache' = CacheInsert(cache, checks[i].url, checks[i].entry)
    /\ checks' = [checks EXCEPT ![i] = drop_guard([@ EXCEPT !.at = "done"])]
    /\ UNCHANGED <<has_cache, concurrency, ignored, links, next_link, pc,
                   probes, log, outcomes, finished, previous, checked, parsed,
                   merging, anchors>>
    /\ UNCHANGED <<rvars, now, query>>

\* The clock stands still here: what a lookup answers has no bearing on who
\* holds the Mutex.
LockNext ==
    \/ \E i \in 1..Len(checks) : CallAlreadyValid(i)
    \/ \E i \in 1..Len(checks) : AlreadyValidReturns(i)
    \/ \E i \in 1..Len(checks), ok \in BOOLEAN : HeadReturns(i, ok)
    \/ \E i \in 1..Len(checks) : CallUpdateCache(i)
    \/ \E i \in 1..Len(checks) : UpdateCacheReturns(i)

SpecLock == LockInit /\ [][LockNext]_vars

\* ----------------------------------------- validate called a second time

\* validate is called again with the batch, the directory and the Context of
\* the call that has returned; the Context's cache is what that call left.
Again ==
    /\ finished
    /\ ~previous.ran
    /\ previous' = [ran |-> TRUE, outcomes |-> outcomes, log |-> log,
                    probes |-> probes, cache |-> cache]
    /\ next_link' = 0
    /\ pc' = [i \in 1..Len(links) |-> "queued"]
    /\ probes' = [i \in 1..Len(links) |-> 0]
    /\ log' = [i \in 1..Len(links) |-> << >>]
    /\ outcomes' = OutcomesEmpty
    /\ finished' = FALSE
    /\ UNCHANGED <<has_cache, concurrency, ignored, links, checks, checked, parsed,
                   merging, anchors>>
    /\ UNCHANGED <<rvars, cvars>>

\* Both calls are made within the cache timeout, which is one tick of the
\* clock: the clock stands still here.
NextTwice ==
    \/ Start
    \/ \E i \in 1..Len(links), ok \in BOOLEAN : Response(i, ok)
    \/ Finish
    \/ Again

SpecTwice == Init /\ [][NextTwice]_vars

\* ------------------------------------- Category::categorise on its own

\* Category::categorise(src), called once on an href.
Categorise(src) ==
    /\ ~parsed.called
    /\ parsed' = [called |-> TRUE, src |-> src,
                  category |-> Category_categorise(src)]
    /\ UNCHANGED <<rvars, cvars>>
    /\ UNCHANGED <<has_cache, concurrency, ignored, links, next_link, pc,
                   probes, log, outcomes, finished, checks, previous, checked,
                   merging, anchors>>

CategoriseInit ==
    /\ fs = ValidateFS
    /\ RIdle
    /\ CIdle
    /\ VIdle

CategoriseNext == \E src \in HrefStrings : Categorise(src)

SpecCategorise == CategoriseInit /\ [][CategoriseNext]_vars

\* ----------------------------------------------- Outcomes::merge on its own

\* The Outcomes handed to merge: two links, one of them twice in a bucket.
MergeLinkA == [id |-> 1, href |-> "foo"]
MergeLinkB == [id |-> 2, href |-> "https://a/"]

MergeOperands ==
    { [valid |-> v, invalid |-> i, ignored |-> g, unknown_category |-> u] :
        v \in { << >>, <<MergeLinkA>>, <<MergeLinkB, MergeLinkA>> },
        i \in { << >>, <<[link |-> MergeLinkA, reason |-> IoNotFound]>> },
        g \in { << >>, <<MergeLinkB>> },
        u \in { << >>, <<MergeLinkA>> } }

\* a.merge(b) and b.merge(a); a.merge(b) then merge(c), and a.merge(b.merge(c));
\* a.merge(Outcomes::empty()) and Outcomes::empty().merge(a); a.extend([b, c]).
Merge(a, b, c) ==
    /\ ~merging.called
    /\ merging' = [called |-> TRUE, a |-> a, b |-> b, c |-> c,
                   a_b |-> merge(a, b),
                   b_a |-> merge(b, a),
                   ab_c |-> merge(merge(a, b), c),
                   a_bc |-> merge(a, merge(b, c)),
                   a_empty |-> merge(a, OutcomesEmpty),
                   empty_a |-> merge(OutcomesEmpty, a),
                   extended |-> ExtendOutcomes(a, <<b, c>>)]
    /\ UNCHANGED <<rvars, cvars>>
    /\ UNCHANGED <<has_cache, concurrency, ignored, links, next_link, pc,
                   probes, log, outcomes, finished, checks, previous, checked,
                   parsed, anchors>>

MergeInit ==
    /\ fs = ValidateFS
    /\ RIdle
    /\ CIdle
    /\ VIdle

MergeNext == \E a \in MergeOperands, b \in MergeOperands, c \in MergeOperands :
                Merge(a, b, c)

SpecMerge == MergeInit /\ [][MergeNext]_vars

\* ------------------------------------------ validate on links with fragments

\* Batches of links that name a section, next to the same links without one;
\* the section exists in the documents or it does not.
FragmentBatches ==
    UNION { [1..n -> FragmentHrefs \cup {"https://a/", "foo"}] : n \in 0..MaxLinks }
Sections == { "sec" }

FragmentsInit ==
    /\ fs = ValidateFS
    /\ RIdle
    /\ CIdle
    /\ has_cache \in BOOLEAN
    /\ concurrency \in 1..MaxConcurrency
    /\ ignored = {}
    /\ links \in FragmentBatches
    /\ next_link = 0
    /\ pc = [i \in 1..Len(links) |-> "queued"]
    /\ probes = [i \in 1..Len(links) |-> 0]
    /\ log = [i \in 1..Len(links) |-> << >>]
    /\ outcomes = OutcomesEmpty
    /\ finished = FALSE
    /\ checks = << >>
    /\ previous = NoRun
    /\ checked = NoCheck
    /\ parsed = NoParse
    /\ merging = NoMerge
    /\ anchors \in SUBSET Sections

FragmentsNext ==
    \/ Start
    \/ \E i \in 1..Len(links), ok \in BOOLEAN : Response(i, ok)
    \/ Finish

SpecFragments == FragmentsInit /\ [][FragmentsNext]_vars

\* ------------------------------------------------ Options under construction

\* The arguments of with_root_directory: a directory, a path that does not
\* exist, a symlink to the directory above, a path with a `..` in it and a
\* path that is a file, a symlink or nothing at all.
RootArguments ==
    { <<"r">>, <<"nope">>, <<"r", "out">>, <<"r", "foo", "..">>,
      <<"r", "index.html">> }
RootLinkPaths == { Rel(<<"foo">>), Abs(<<"foo">>), Rel(<<"..", "index.html">>) }

RootNext ==
    \/ \E root \in RootArguments : WithRootDirectory(root)
    \/ \E value \in BOOLEAN : SetLinksMayTraverse(value)
    \/ \E value \in BOOLEAN : SetFollowSymlinks(value)
    \/ \E dir \in Directories, link \in RootLinkPaths : ResolveLink(dir, link)

SpecRoot == RInit /\ [][RootNext]_vars

\* ------------------------------------------------- validate, end to end

\* A batch of three links: a url, a markdown file that does not exist and
\* has no html twin, and a rooted path to a file that does exist; no root
\* directory, nothing ignored, and the symlink policy either way.
EndToEndFS ==
    ValidateFS @@ (<<"etc">> :> Dir) @@ (<<"etc", "passwd">> :> File)
EndToEndHrefs == { "https://a/", "./missing.md", "/etc/passwd" }
EndToEndBatches ==
    { batch \in [1..3 -> EndToEndHrefs] :
        \A i, j \in 1..3 : i # j => batch[i] # batch[j] }

EndToEndInit ==
    /\ fs = EndToEndFS
    /\ \E value \in BOOLEAN : options = set_follow_symlinks(OptionsNew, value)
    /\ rpc = "config"
    /\ current_directory = << >>
    /\ link_path = Rel(<< >>)
    /\ resolved = Err(None)
    /\ tried = << >>
    /\ CIdle
    /\ has_cache \in BOOLEAN
    /\ concurrency \in 1..(MaxConcurrency + 1)
    /\ ignored = {}
    /\ links \in EndToEndBatches
    /\ next_link = 0
    /\ pc = [i \in 1..Len(links) |-> "queued"]
    /\ probes = [i \in 1..Len(links) |-> 0]
    /\ log = [i \in 1..Len(links) |-> << >>]
    /\ outcomes = OutcomesEmpty
    /\ finished = FALSE
    /\ XIdle

EndToEndNext ==
    \/ Start
    \/ \E i \in 1..Len(links), ok \in BOOLEAN : Response(i, ok)
    \/ Finish

SpecEndToEnd == EndToEndInit /\ [][EndToEndNext]_vars

\* ----------------------------------------------- validate with a hung probe

\* The first link of the batch that is checked on the web sends a request
\* that never ends; 0 when no link is checked on the web.
HungLink ==
    LET web == { i \in 1..Len(links) :
                    ~should_ignore(Link(i)) /\ categorise(links[i]).kind = "Url" }
    IN  IF web = {} THEN 0 ELSE CHOOSE i \in web : \A j \in web : i <= j

HungBatches ==
    UNION { [1..n -> {"https://a/", "https://b/", "foo"}] : n \in 0..MaxLinks }

HungInit ==
    /\ fs = ValidateFS
    /\ RIdle
    /\ CIdle
    /\ has_cache \in BOOLEAN
    /\ concurrency \in 1..MaxConcurrency
    /\ ignored \in { {}, {"https://b/"} }
    /\ links \in HungBatches
    /\ next_link = 0
    /\ pc = [i \in 1..Len(links) |-> "queued"]
    /\ probes = [i \in 1..Len(links) |-> 0]
    /\ log = [i \in 1..Len(links) |-> << >>]
    /\ outcomes = OutcomesEmpty
    /\ finished = FALSE
    /\ XIdle

\* A request other than the hung one ends.
OtherResponse ==
    \E i \in 1..Len(links), ok \in BOOLEAN : i # HungLink /\ Response(i, ok)

HungNext ==
    \/ Start
    \/ OtherResponse
    \/ Finish

\* The stream moves on to the next link: of the steps of validate, only the
\* one that starts a check does.
TakesNext == ~finished /\ CanStart /\ next_link' = next_link + 1

\* The executor keeps polling validate, which takes the next link whenever
\* the buffer has room, and every request but the hung one ends in the end.
SpecHung ==
    /\ HungInit /\ [][HungNext]_vars
    /\ WF_next_link(TakesNext) /\ WF_vars(OtherResponse) /\ WF_vars(Finish)

\* ------------------------------------- validate when every request ends

\* The request of link i ends, well or not.
RequestEnds(i) == \E ok \in BOOLEAN : Response(i, ok)

LiveNext ==
    \/ Start
    \/ \E i \in 1..Len(links) : RequestEnds(i)
    \/ Finish

\* The executor keeps polling validate, which takes the next link whenever
\* the buffer has room and returns once nothing is left; every request ends
\* in the end.
SpecLive ==
    /\ HungInit /\ [][LiveNext]_vars
    /\ WF_next_link(TakesNext)
    /\ \A i \in 1..(MaxLinks + 1) : WF_vars(RequestEnds(i))
    /\ WF_vars(Finish)

\* ------------------------------------------------ claims on the resolver

Resolved == rpc = "resolved"
Confined ==
    /\ options.root_directory.some
    /\ ~options.links_may_traverse_the_root_directory
Root == options.root_directory.path
UnderRoot(p) == StartsWith(p, Root)
OnlyDots(segs) == \A i \in 1..Len(segs) : segs[i] \in {".", ".."}
HasSegment(segs, s) == \E i \in 1..Len(segs) : segs[i] = s

\* C1: with a root set and traversal disallowed, every path resolve_link
\* returns has the root as a component-wise prefix and holds no ".." segment,
\* whether symlinks are followed or not.
C1_RootConfinement ==
    (Resolved /\ Confined /\ resolved.ok)
        => /\ UnderRoot(resolved.val)
           /\ ~HasSegment(resolved.val, "..")

\* A confined resolution of a relative link with a ".." segment that succeeded.
C1_Witness ==
    /\ Resolved /\ Confined /\ resolved.ok
    /\ ~link_path.rooted
    /\ HasSegment(link_path.segs, "..")

\* C2: a rooted link resolved with no root configured fails with
\* TraversesParentDirectories, whatever the two flags say, and no candidate
\* was looked up on the filesystem.
C2_NoRootAbsoluteFails ==
    (Resolved /\ link_path.rooted /\ ~options.root_directory.some)
        => /\ resolved = Err(TraversesParentDirectories)
           /\ tried = << >>

\* A rooted link resolved with no root and with traversal allowed.
C2_Witness ==
    /\ Resolved /\ link_path.rooted /\ ~options.root_directory.some
    /\ options.links_may_traverse_the_root_directory
    /\ ~options.follow_symlinks
    /\ Len(link_path.segs) > 0

\* The case of C5: a relative link from a directory under the root whose
\* target, after its ".." segments, lies outside the root.
LeavesRoot ==
    /\ Resolved /\ Confined
    /\ ~link_path.rooted
    /\ UnderRoot(current_directory)
    /\ HasSegment(link_path.segs, "..")
    /\ ~UnderRoot(normalize_path(current_directory \o link_path.segs))

CandidateCanonicalizes ==
    LET candidates == possible_names(options, current_directory \o link_path.segs)
    IN  \E i \in 1..Len(candidates) : canonicalize(fs, options, candidates[i]).ok

\* C5 as stated: a link that leaves the root fails with
\* TraversesParentDirectories whatever exists at its target.
C5_AsStated == LeavesRoot => resolved = Err(TraversesParentDirectories)

\* C5, amended: a link that leaves the root always fails; the failure is
\* TraversesParentDirectories when a candidate canonicalises (the target
\* exists, with its default file when it is a directory) and Io NotFound
\* when none does.
C5_TraversalFails ==
    LeavesRoot =>
        /\ ~resolved.ok
        /\ resolved.err = (IF CandidateCanonicalizes
                           THEN TraversesParentDirectories ELSE IoNotFound)

\* A link that leaves the root for a target that exists.
C5_Witness ==
    /\ LeavesRoot
    /\ options.follow_symlinks
    /\ resolved = Err(TraversesParentDirectories)

\* The case of C6: a chain of "." and ".." from a directory under the root
\* that ends at a directory inside the root holding the default file.
ChainTarget == normalize_path(current_directory \o link_path.segs)
ChainInsideRoot ==
    /\ Resolved /\ Confined
    /\ ~link_path.rooted
    /\ Len(link_path.segs) > 0
    /\ OnlyDots(link_path.segs)
    /\ UnderRoot(current_directory)
    /\ UnderRoot(ChainTarget)
    /\ is_dir(fs, ChainTarget)
    /\ exists(fs, Append(ChainTarget, options.default_file))

\* C6 as stated: such a chain resolves to the directory joined with the
\* default file.
C6_AsStated ==
    ChainInsideRoot => resolved = Ok(Append(ChainTarget, options.default_file))

\* C6, amended: such a chain resolves to the directory joined with the
\* default file when symlinks are not followed or the default file is not a
\* symlink; a default file that is a symlink is resolved to its target, which
\* is returned if it is inside the root and is a traversal error if not.
C6_ChainLandsOnDefaultFile ==
    ChainInsideRoot =>
        LET default == Append(ChainTarget, options.default_file)
            real == dunce_canonicalize(fs, default).val
        IN  IF ~options.follow_symlinks \/ fs[default].kind # "symlink"
            THEN resolved = Ok(default)
            ELSE resolved = (IF UnderRoot(real) THEN Ok(real)
                             ELSE Err(TraversesParentDirectories))

\* A chain that reaches the root itself and lands on its default file.
C6_Witness ==
    /\ ChainInsideRoot
    /\ HasSegment(link_path.segs, "..")
    /\ ChainTarget = Root
    /\ resolved = Ok(Append(Root, options.default_file))

\* Whether a "." segment follows a named segment of the path string.
DotAfterName(segs) ==
    \E i \in 2..Len(segs) : segs[i] = "." /\ segs[i - 1] \notin {".", ".."}

LinkIds == 1..Len(links)
IsUrlCheck(i) == ~should_ignore(Link(i)) /\ categorise(links[i]).kind = "Url"
UrlOf(i) == categorise(links[i]).url

\* How often link i stands in a bucket of the Outcomes.
Occurrences(bucket, i) ==
    Cardinality({ k \in 1..Len(bucket) : bucket[k].id = i })
InvalidLinks == [k \in 1..Len(outcomes.invalid) |-> outcomes.invalid[k].link]
TimesCollected(i) ==
    Occurrences(outcomes.valid, i) + Occurrences(InvalidLinks, i)
        + Occurrences(outcomes.ignored, i)
        + Occurrences(outcomes.unknown_category, i)

\* C3: the checks in flight never outnumber concurrency(), and a link is
\* taken from the stream only while fewer than concurrency() are in flight.
C3_ConcurrencyBound ==
    /\ [](Cardinality(InFlight) <= concurrency)
    /\ [][next_link' # next_link => Cardinality(InFlight) < concurrency]_vars

\* As many checks in flight as concurrency() allows, two or more, with a
\* link still waiting in the stream.
C3_Witness ==
    /\ concurrency >= 2
    /\ Cardinality(InFlight) = concurrency
    /\ next_link < Len(links)

\* C4: when validate returns, every link of the batch stands exactly once in
\* the four buckets together, so their sizes add up to the batch's length.
C4_ExactlyOneOutcome ==
    finished =>
        /\ \A i \in LinkIds : TimesCollected(i) = 1
        /\ Len(outcomes.valid) + Len(outcomes.invalid) + Len(outcomes.ignored)
              + Len(outcomes.unknown_category) = Len(links)

\* validate has returned from a batch with two broken links, a valid one
\* collected after them.
C4_Witness ==
    /\ finished
    /\ Len(outcomes.invalid) >= 2
    /\ Len(outcomes.valid) >= 1
    /\ \E k \in 1..Len(outcomes.valid) :
          outcomes.valid[k].id < outcomes.invalid[1].link.id

\* C8: url_is_still_valid answers true exactly when the url has an entry,
\* the entry is valid, its timestamp is not later than the clock and the time
\* elapsed since then is strictly less than the timeout.
C8_CacheFreshness ==
    [][query' # query =>
        LET entry == cache[query'.url]
        IN  /\ query'.at = now
            /\ cache' = cache
            /\ query'.answer <=>
                  /\ entry.some
                  /\ entry.valid
                  /\ entry.timestamp <= now
                  /\ now - entry.timestamp < query'.timeout]_vars

\* A valid entry asked about when the time elapsed equals the timeout: stale.
C8_Witness ==
    /\ query.url # None
    /\ query.at = now
    /\ cache[query.url].some /\ cache[query.url].valid
    /\ query.timeout > 0
    /\ now - cache[query.url].timestamp = query.timeout
    /\ ~query.answer

\* The cache holds a fresh successful entry for the url at the clock's reading.
FreshSuccess(url) ==
    /\ has_cache
    /\ cache[url].some
    /\ cache[url].valid
    /\ cache[url].timestamp <= now
    /\ now - cache[url].timestamp < cache_timeout

\* C9: a url check that starts with a fresh successful entry in the cache
\* sends no request and is valid; any other url check sends exactly one
\* request, and no further request is sent for it whatever the response.
C9_ProbeAtMostOnce ==
    [][\A i \in LinkIds :
        /\ (pc[i] = "queued" /\ pc'[i] # "queued" /\ IsUrlCheck(i)) =>
              IF FreshSuccess(UrlOf(i))
              THEN /\ probes'[i] = 0
                   /\ pc'[i] = "done"
                   /\ Occurrences(outcomes'.valid, i) = 1
              ELSE /\ probes'[i] = 1
                   /\ pc'[i] = "probing"
        /\ pc[i] # "queued" => probes'[i] = probes[i]
        /\ probes'[i] <= 1]_vars

\* A url check answered from the cache, after a check of the same url that
\* sent a request.
C9_Witness ==
    \E i, j \in LinkIds :
        /\ i < j
        /\ IsUrlCheck(i) /\ IsUrlCheck(j) /\ UrlOf(i) = UrlOf(j)
        /\ pc[i] = "done" /\ probes[i] = 1
        /\ pc[j] = "done" /\ probes[j] = 0

\* C10: when the response to a check's request arrives and there is a cache,
\* the url's entry becomes {timestamp = the clock's reading, valid = the
\* request succeeded} and no other entry changes; the check did its cache
\* read, its request and its cache write in that order, and its outcome is the
\* request's: valid if it succeeded, invalid with a web reason if not.
C10_CacheWriteAfterProbe ==
    [][\A i \in LinkIds :
        (pc[i] = "probing" /\ pc'[i] = "done") =>
            LET ok == log'[i][Len(log'[i]) - (IF has_cache THEN 1 ELSE 0)] = "head_ok"
            IN  /\ log'[i] \in
                     { <<"categorise", "cache_read", "head", "head_ok", "cache_write">>,
                       <<"categorise", "cache_read", "head", "head_err", "cache_write">>,
                       <<"categorise", "head", "head_ok">>,
                       <<"categorise", "head", "head_err">> }
                /\ has_cache =>
                     /\ cache'[UrlOf(i)] = CacheEntryNew(now, ok)
                     /\ \A u \in Urls \ {UrlOf(i)} : cache'[u] = cache[u]
                     /\ log'[i][2] = "cache_read"
                /\ IF ok
                   THEN outcomes'.valid = Append(outcomes.valid, Link(i))
                   ELSE outcomes'.invalid =
                          Append(outcomes.invalid,
                                 [link |-> Link(i), reason |-> Web])]_vars

\* A failed request has overwritten the valid entry an earlier check of the
\* same url had written.
C10_Witness ==
    \E i, j \in LinkIds :
        /\ i < j
        /\ has_cache
        /\ IsUrlCheck(i) /\ IsUrlCheck(j) /\ UrlOf(i) = UrlOf(j)
        /\ pc[i] = "done" /\ log[i] = <<"categorise", "cache_read", "head", "head_ok", "cache_write">>
        /\ pc[j] = "done" /\ log[j] = <<"categorise", "cache_read", "head", "head_err", "cache_write">>
        /\ cache[UrlOf(j)] = CacheEntryNew(now, FALSE)

\* ------------------------------------------ claims on the cache's lock

\* The checks that hold the guard of the cache's Mutex.
Holders == { i \in 1..Len(checks) : checks[i].guard }

\* C11: at most one check holds the cache's guard at a time, and a check that
\* holds it is inside already_valid or update_cache: never waiting on its
\* HEAD request, never between the two, never after check_web returned.
C11_LockDiscipline ==
    /\ Cardinality(Holders) <= 1
    /\ \A i \in Holders : checks[i].at \in {"already_valid", "update_cache"}
    /\ \A i \in 1..Len(checks) :
          checks[i].at \in {"start", "head", "returned", "done"} =>
              ~checks[i].guard

\* One check holds the guard to insert its entry while another waits on its
\* HEAD request and a third has its response and waits for the Mutex.
C11_Witness ==
    \E i, j, k \in 1..Len(checks) :
        /\ checks[i].at = "update_cache" /\ checks[i].guard
        /\ checks[j].at = "head"
        /\ checks[k].at = "returned"

\* ------------------------------------------------- claims on validate_one

\* The links of the batch the Context was told to ignore.
ToldToIgnore == { i \in LinkIds : links[i] \in ignored }

\* C12: a link the Context ignores is recorded as Ignored, and only there,
\* by the step that takes it from the stream; its check categorises nothing,
\* never reaches check_filesystem, reads and writes no cache entry and sends
\* no request, whatever its href.
C12_IgnoreTakesPrecedence ==
    /\ [](\A i \in ToldToIgnore :
            /\ log[i] = << >>
            /\ probes[i] = 0
            /\ pc[i] \in {"queued", "done"}
            /\ pc[i] = "done" =>
                  /\ Occurrences(outcomes.ignored, i) = 1
                  /\ TimesCollected(i) = 1)
    /\ [][\A i \in ToldToIgnore :
            (pc[i] = "queued" /\ pc'[i] # "queued") =>
                /\ pc'[i] = "done"
                /\ cache' = cache
                /\ outcomes'.ignored = Append(outcomes.ignored, Link(i))]_vars

\* Three ignored links are done: a url, a rooted path that would fail and a
\* href that is neither; the url has no cache entry.
C12_Witness ==
    \E i, j, k \in ToldToIgnore :
        /\ pc[i] = "done" /\ links[i] = "https://b/"
        /\ pc[j] = "done" /\ links[j] = "/foo"
        /\ pc[k] = "done" /\ links[k] = "a b"
        /\ has_cache /\ ~cache["https://b/"].some
        /\ Len(outcomes.ignored) = 3

\* What the check of link i returned, read off what it did: check_filesystem's
\* result for a path, and for a url Ok after a fresh cache entry or a HEAD
\* request that succeeded and the web Reason after one that failed.
CheckResult(i) ==
    LET category == categorise(links[i])
    IN  IF category.kind = "FileSystem"
        THEN check_filesystem(fs, options, ValidateDirectory, category.path, None)
        ELSE IF \E k \in 1..Len(log[i]) : log[i][k] = "head_err"
             THEN Err(Web)
             ELSE Ok(<< >>)

\* The checker that ran for link i: one of them, both or none.
Checkers(i) ==
    { log[i][k] : k \in 1..Len(log[i]) } \cap {"check_filesystem", "head", "cache_read"}

\* C13: once done, a link the Context does not ignore was checked by
\* check_filesystem alone if its href is a path, by check_web alone if it is a
\* url and by neither if it is neither, in which case it stands in
\* unknown_category; a checked link stands in valid exactly when its check
\* returned Ok and otherwise in invalid with the Reason the check returned.
C13_DispatchByCategory ==
    \A i \in LinkIds \ ToldToIgnore :
        pc[i] = "done" =>
            LET kind == categorise(links[i]).kind
            IN  /\ TimesCollected(i) = 1
                /\ kind = "FileSystem" => Checkers(i) = {"check_filesystem"}
                /\ kind = "Url" =>
                      /\ Checkers(i) # {}
                      /\ Checkers(i) \subseteq {"head", "cache_read"}
                /\ kind = "None" =>
                      /\ Checkers(i) = {}
                      /\ Occurrences(outcomes.unknown_category, i) = 1
                /\ kind # "None" =>
                      IF CheckResult(i).ok
                      THEN Occurrences(outcomes.valid, i) = 1
                      ELSE \E k \in 1..Len(outcomes.invalid) :
                              outcomes.invalid[k] =
                                 [link |-> Link(i), reason |-> CheckResult(i).err]

\* validate has returned with a path in valid, a rooted path in invalid for
\* the Reason join gave it and a url in invalid for a web Reason.
C13_Witness ==
    /\ finished
    /\ ignored = {}
    /\ \E k \in 1..Len(outcomes.valid) : outcomes.valid[k].href = "foo"
    /\ \E k \in 1..Len(outcomes.invalid) :
          /\ outcomes.invalid[k].link.href = "/foo"
          /\ outcomes.invalid[k].reason = TraversesParentDirectories
    /\ \E k \in 1..Len(outcomes.invalid) : outcomes.invalid[k].reason = Web

\* ---------------------------------- claims on a second call of validate

ToSet(seq) == { seq[k] : k \in 1..Len(seq) }

\* Outcomes equal in content, the order within a bucket ignored.
SameContent(a, b) ==
    /\ ToSet(a.valid) = ToSet(b.valid)
    /\ ToSet(a.invalid) = ToSet(b.invalid)
    /\ ToSet(a.ignored) = ToSet(b.ignored)
    /\ ToSet(a.unknown_category) = ToSet(b.unknown_category)

\* How the HEAD requests for url ended in a call, by the call's log.
Answers(lg, url) ==
    UNION { ToSet(lg[i]) : i \in { j \in LinkIds : links[j] = url } }
        \cap {"head_ok", "head_err"}

SecondCallDone == previous.ran /\ finished

\* Every entry the first call left in the cache is younger than the timeout.
WithinTimeout ==
    \A url \in Urls :
        previous.cache[url].some =>
            /\ previous.cache[url].timestamp <= now
            /\ now - previous.cache[url].timestamp < cache_timeout

\* No url whose request succeeded in the first call was asked for again.
NoProbeAfterSuccess ==
    \A i \in LinkIds :
        (links[i] \in Urls /\ "head_ok" \in Answers(previous.log, links[i]))
            => probes[i] = 0

\* Every url answers all its requests alike, in both calls.
StableAnswers ==
    \A url \in Urls :
        Cardinality(Answers(previous.log, url) \cup Answers(log, url)) <= 1

\* C14 as the claim states it: a second call with the same batch and Context
\* within the cache timeout returns Outcomes equal in content to the first
\* call's and sends no request for a url whose request succeeded before.
C14_AsStated ==
    (SecondCallDone /\ has_cache /\ WithinTimeout) =>
        /\ SameContent(outcomes, previous.outcomes)
        /\ NoProbeAfterSuccess

\* C14: the same, for calls in which every url answers all its requests
\* alike.
C14_IdempotentOnStableAnswers ==
    (SecondCallDone /\ has_cache /\ WithinTimeout /\ StableAnswers) =>
        /\ SameContent(outcomes, previous.outcomes)
        /\ NoProbeAfterSuccess

\* A second call has returned: one url succeeded in the first call and was
\* not asked for again, another failed in both.
C14_Witness ==
    /\ SecondCallDone /\ has_cache /\ WithinTimeout /\ StableAnswers
    /\ ignored = {}
    /\ \E i, j \in LinkIds :
          /\ links[i] = "https://a/" /\ links[j] = "https://b/"
          /\ previous.probes[i] = 1 /\ probes[i] = 0
          /\ Answers(previous.log, links[i]) = {"head_ok"}
          /\ previous.probes[j] = 1 /\ probes[j] = 1
          /\ Answers(log, links[j]) = {"head_err"}

\* ------------------------------------ claims on the alternate extensions

\* The joined path of the link that was resolved, the alternates configured
\* for its extension, in their order, and the joined path with each.
Joined == join(options, current_directory, link_path)
Alternates ==
    LET key == ToLowercase(Extension(Joined.val))
    IN  IF Extension(Joined.val) # None /\ key \in DOMAIN options.alternate_extensions
        THEN options.alternate_extensions[key]
        ELSE << >>
AlternatePath(k) == WithExtension(Joined.val, Alternates[k])

\* The alternates of the joined path that exist on disk, by their place in
\* the configured order, and the first of them.
ExistingAlternates == { k \in 1..Len(Alternates) : exists(fs, AlternatePath(k)) }
FirstExistingAlternate ==
    AlternatePath(CHOOSE k \in ExistingAlternates :
                     \A other \in ExistingAlternates : k <= other)

\* The link's extension has alternates, the joined path does not exist on
\* disk and one of its alternates does.
OnlyAnAlternateExists ==
    /\ Resolved
    /\ Joined.ok
    /\ ~exists(fs, Joined.val)
    /\ ExistingAlternates # {}

NoCandidateExists ==
    /\ Resolved
    /\ Joined.ok
    /\ ~exists(fs, Joined.val)
    /\ ExistingAlternates = {}

\* C16 as the claim states it: a link none of whose candidates exists on disk
\* fails with Reason::Io of kind NotFound, for every Options.
C16_AsStated ==
    NoCandidateExists => resolved = Err(IoNotFound)

\* --------------------------------------- claims on the custom validation

Checked == rpc = "checked"

\* C17: check_filesystem calls the custom validation once, with the path
\* resolve_link returned and the link's fragment, when resolve_link succeeded
\* and not at all when it failed, in which case it returns resolve_link's
\* Reason; after the call it returns the Reason the custom validation
\* returned, if it returned one, and Ok otherwise.
C17_CustomValidationOrdering ==
    Checked =>
        IF resolved.ok
        THEN /\ checked.calls =
                   <<[path |-> resolved.val, fragment |-> checked.fragment]>>
             /\ checked.result =
                   CASE options.custom_validation = "no_fragments"
                           /\ checked.fragment # None -> Err(IoPermissionDenied)
                     [] options.custom_validation = "no_markdown"
                           /\ resolved.val[Len(resolved.val)] = "index.md" ->
                                Err(IoInvalidData)
                     [] OTHER -> Ok(<< >>)
        ELSE /\ checked.calls = << >>
             /\ checked.result = resolved

\* A link with a fragment resolved and the custom validation refused it.
C17_Witness ==
    /\ Checked
    /\ resolved = Ok(<<"r", "foo", "index.md">>)
    /\ checked.calls = <<[path |-> <<"r", "foo", "index.md">>, fragment |-> "sec"]>>
    /\ checked.result = Err(IoPermissionDenied)

\* ------------------------------------------ claims on leaving the root

\* Where the joined path leads on disk, and whether that is outside the root.
Target == dunce_canonicalize(fs, Joined.val)
TargetOutsideRoot ==
    /\ options.root_directory.some
    /\ Target.ok
    /\ ~StartsWith(Target.val, options.root_directory.path)

\* Traversal is allowed, or there is no root and the link is relative.
TraversalUnchecked ==
    \/ options.links_may_traverse_the_root_directory
    \/ ~options.root_directory.some /\ ~link_path.rooted

\* C18 as the claim states it: with traversal allowed, or with no root and a
\* relative link, resolve_link never fails with TraversesParentDirectories,
\* and a relative link to a file outside the root resolves to the file's
\* canonical path.
C18_AsStated ==
    (Resolved /\ TraversalUnchecked) =>
        /\ resolved # Err(TraversesParentDirectories)
        /\ (~link_path.rooted /\ TargetOutsideRoot /\ ~is_dir(fs, Target.val))
              => resolved = Target

\* C18: the same, but a rooted link with no root configured fails with
\* TraversesParentDirectories whatever the traversal flag says, and a link to
\* a file resolves to the file's canonical path with follow_symlinks on and to
\* the normal form of the joined path with follow_symlinks off.
C18_TraversalAllowed ==
    (Resolved /\ TraversalUnchecked) =>
        /\ resolved = Err(TraversesParentDirectories)
              <=> (link_path.rooted /\ ~options.root_directory.some)
        /\ (Joined.ok /\ options.follow_symlinks /\ Target.ok
                /\ ~is_dir(fs, Target.val))
              => resolved = Target
        /\ (Joined.ok /\ ~options.follow_symlinks
                /\ ~is_dir(fs, normalize_path(Joined.val)))
              => resolved = Ok(normalize_path(Joined.val))

\* With the root /r/foo and traversal allowed, `../index.html` from the root
\* resolved to /r/index.html.
C18_Witness ==
    /\ Resolved
    /\ options.root_directory = SomePath(<<"r", "foo">>)
    /\ options.links_may_traverse_the_root_directory
    /\ current_directory = <<"r", "foo">>
    /\ link_path = Rel(<<"..", "index.html">>)
    /\ TargetOutsideRoot
    /\ resolved = Ok(<<"r", "index.html">>)

\* ------------------------------------------ claims on unfollowed symlinks

\* The lexical normal form of the joined path.
NormalForm == normalize_path(Joined.val)

\* The link names a symlink inside the root whose target is a file outside
\* the root.
NamesSymlinkLeavingRoot ==
    /\ Joined.ok
    /\ options.root_directory.some
    /\ NormalForm \in DOMAIN fs
    /\ fs[NormalForm].kind = "symlink"
    /\ StartsWith(NormalForm, options.root_directory.path)
    /\ LET target == dunce_canonicalize(fs, NormalForm)
       IN  /\ target.ok
           /\ Node(fs, target.val).kind = "file"
           /\ ~StartsWith(target.val, options.root_directory.path)

\* C19: with follow_symlinks off, a link that names a symlink inside the root
\* whose target is a file outside the root resolves to the symlink's own
\* normal form, whether traversal is allowed or not; and no result of
\* resolve_link is then anything but the normal form of a candidate or the
\* default file under it.
C19_SymlinkNotFollowed ==
    (Resolved /\ ~options.follow_symlinks) =>
        /\ NamesSymlinkLeavingRoot => resolved = Ok(NormalForm)
        /\ (resolved.ok /\ tried # << >>) =>
              LET candidate == normalize_path(tried[Len(tried)])
              IN  resolved.val \in
                     { candidate, Append(candidate, options.default_file) }

\* With the root /r, traversal forbidden and follow_symlinks off, the link
\* `../index.html` from /r/foo named the symlink /r/index.html -> /index.html
\* and resolved to /r/index.html.
C19_Witness ==
    /\ Resolved
    /\ ~options.follow_symlinks
    /\ ~options.links_may_traverse_the_root_directory
    /\ NamesSymlinkLeavingRoot
    /\ current_directory = <<"r", "foo">>
    /\ link_path = Rel(<<"..", "index.html">>)
    /\ dunce_canonicalize(fs, NormalForm) = Ok(<<"index.html">>)
    /\ resolved = Ok(<<"r", "index.html">>)

\* ------------------------------------------ claims on the categorisation

\* Category::categorise has been called.
Parsed == parsed.called

\* The place of the first `#` of an href, one past its end when it has none,
\* and the two parts the href falls into there.
FirstHash(src) ==
    CHOOSE n \in 1..(Len(src) + 1) :
        /\ n = Len(src) + 1 \/ src[n] = "#"
        /\ \A k \in 1..(n - 1) : src[k] # "#"

PathPart(src) == SubSeq(src, 1, FirstHash(src) - 1)

FragmentPart(src) ==
    IF FirstHash(src) > Len(src) THEN NoString
    ELSE SomeString(SubSeq(src, FirstHash(src) + 1, Len(src)))

\* The path part up to its first `?`, and "/" when nothing stands there.
WithoutQuery(path) ==
    LET n == CHOOSE n \in 1..(Len(path) + 1) :
                /\ n = Len(path) + 1 \/ path[n] = "?"
                /\ \A k \in 1..(n - 1) : path[k] # "?"
    IN  IF n = 1 THEN <<"/">> ELSE SubSeq(path, 1, n - 1)

\* C20 as stated: an href that parses as a URL is categorised as Url;
\* otherwise, if its part before the first `#` is a valid path-and-query, as
\* FileSystem with that part as the path and the part after the first `#`
\* as the fragment (none without a `#`); otherwise as nothing.
C20_AsStated ==
    Parsed =>
        IF Url_parse(parsed.src).ok
        THEN parsed.category.kind = "Url"
        ELSE IF PathAndQuery_parse(PathPart(parsed.src)).ok
        THEN parsed.category = [kind |-> "FileSystem",
                                path |-> PathPart(parsed.src),
                                fragment |-> FragmentPart(parsed.src)]
        ELSE parsed.category = [kind |-> "None"]

\* C20: an href that parses as a URL is categorised as Url; otherwise, if
\* its part before the first `#` is a valid path-and-query, as FileSystem
\* with the fragment being the part after the first `#` (none without a
\* `#`) and the path being the part before the `#` up to its first `?`, or
\* "/" when that is empty; otherwise as nothing.
C20_OrderedParse ==
    Parsed =>
        IF Url_parse(parsed.src).ok
        THEN parsed.category.kind = "Url"
        ELSE IF PathAndQuery_parse(PathPart(parsed.src)).ok
        THEN parsed.category = [kind |-> "FileSystem",
                                path |-> WithoutQuery(PathPart(parsed.src)),
                                fragment |-> FragmentPart(parsed.src)]
        ELSE parsed.category = [kind |-> "None"]

\* "a?##" is no URL; it is split at its first `#` and loses its query.
C20_Witness ==
    /\ Parsed
    /\ parsed.src = <<"a", "?", "#", "#">>
    /\ ~Url_parse(parsed.src).ok
    /\ parsed.category = [kind |-> "FileSystem", path |-> <<"a">>,
                          fragment |-> SomeString(<<"#">>)]

\* ------------------------------------------------ claims on Outcomes::merge

Buckets == { "valid", "invalid", "ignored", "unknown_category" }

\* The number of times an element stands in a bucket.
Copies(bucket, e) == Cardinality({ k \in 1..Len(bucket) : bucket[k] = e })

\* A bucket that holds the multiset union of the given buckets.
IsUnionOf(bucket, parts) ==
    \A e \in ToSet(bucket) \cup UNION { ToSet(parts[k]) : k \in 1..Len(parts) } :
        Copies(bucket, e) =
            Copies(parts[1], e) + Copies(parts[2], e) + Copies(parts[3], e)

\* Two Outcomes alike up to the order inside each bucket.
SameBuckets(x, y) ==
    \A f \in Buckets : IsUnionOf(x[f], <<y[f], << >>, << >> >>)

\* C21: after a.merge(b) every bucket of a holds the multiset union of that
\* bucket of a and of b; merge is commutative up to the order inside each
\* bucket, associative, and Outcomes::empty() is its identity on both sides;
\* extending by a list of Outcomes merges them all.
C21_MergeIsMultisetUnion ==
    merging.called =>
        /\ \A f \in Buckets :
              /\ IsUnionOf(merging.a_b[f], <<merging.a[f], merging.b[f], << >> >>)
              /\ IsUnionOf(merging.extended[f],
                           <<merging.a[f], merging.b[f], merging.c[f]>>)
        /\ SameBuckets(merging.a_b, merging.b_a)
        /\ merging.ab_c = merging.a_bc
        /\ merging.a_empty = merging.a
        /\ merging.empty_a = merging.a

\* Two Outcomes that share a link in `valid` and each bring an ignored link:
\* the two orders of merging differ as lists and agree as multisets.
C21_Witness ==
    /\ merging.called
    /\ merging.a.valid = <<MergeLinkA>>
    /\ merging.b.valid = <<MergeLinkB, MergeLinkA>>
    /\ merging.a.ignored = <<MergeLinkB>>
    /\ merging.b.ignored = <<MergeLinkB>>
    /\ merging.a_b.valid = <<MergeLinkA, MergeLinkB, MergeLinkA>>
    /\ merging.b_a.valid = <<MergeLinkB, MergeLinkA, MergeLinkA>>
    /\ merging.a_b.ignored = <<MergeLinkB, MergeLinkB>>

\* -------------------------------------- claims on the cache's timestamps

\* Link i's check has just written its url's entry.
WritesCache(i) ==
    /\ log'[i] # log[i]
    /\ log'[i][Len(log'[i])] = "cache_write"

\* C22: whenever a check of validate writes the cache, the entry it leaves
\* for its url carries the clock's reading at the end of its request, and
\* that reading is not earlier than the timestamp of the entry it overwrites.
C22_TimestampsMonotonic ==
    [][\A i \in LinkIds :
        WritesCache(i) =>
            /\ cache'[UrlOf(i)].some
            /\ cache'[UrlOf(i)].timestamp = now
            /\ cache[UrlOf(i)].some =>
                  cache[UrlOf(i)].timestamp <= cache'[UrlOf(i)].timestamp]_vars

\* Two checks of one url, run one after the other with the clock moving on
\* in between, have both written: the later write stands.
C22_Witness ==
    \E i, j \in LinkIds :
        /\ i < j
        /\ concurrency = 1
        /\ IsUrlCheck(i) /\ IsUrlCheck(j) /\ UrlOf(i) = UrlOf(j)
        /\ log[i] = <<"categorise", "cache_read", "head", "head_err", "cache_write">>
        /\ log[j] = <<"categorise", "cache_read", "head", "head_ok", "cache_write">>
        /\ now = 1
        /\ cache[UrlOf(j)].timestamp = 1
        /\ cache[UrlOf(j)].valid

\* ------------------------------------------------- claims on fragments

\* Link i stands in valid / in invalid.
InValid(i) == Occurrences(outcomes.valid, i) = 1
InInvalid(i) == Occurrences(InvalidLinks, i) = 1

\* What a check of a url may do, in order.
WebLogs ==
    { <<"categorise", "cache_read">>,
      <<"categorise", "cache_read", "head", "head_ok", "cache_write">>,
      <<"categorise", "cache_read", "head", "head_err", "cache_write">>,
      <<"categorise", "head", "head_ok">>,
      <<"categorise", "head", "head_err">> }

Canonicalisable == { root \in RootArguments : dunce_canonicalize(fs, root).ok }

\* C24: a with_root_directory call that fails was handed a root that does
\* not canonicalise, and it leaves no Options behind: nothing is configured
\* or resolved after it. A call that changes the Options was handed a root
\* that canonicalises; it stores that root's canonical form, which is its
\* own canonical form, and leaves every other field as it was.
C24_EagerMisconfiguration ==
    /\ [](rpc = "config_error" => resolved = Err(None) /\ tried = << >>)
    /\ [][/\ rpc = "config_error" => UNCHANGED <<rpc, options, resolved, tried>>
          /\ (rpc = "config" /\ rpc' = "config_error") =>
                /\ RootArguments \ Canonicalisable # {}
                /\ options' = options
          /\ options'.root_directory # options.root_directory =>
                /\ rpc' = "config"
                /\ \E root \in Canonicalisable :
                      options' = [options EXCEPT !.root_directory =
                                     SomePath(dunce_canonicalize(fs, root).val)]
                /\ dunce_canonicalize(fs, options'.root_directory.path) =
                      Ok(options'.root_directory.path)]_vars

\* A symlink to the top directory was taken as the root and stored as the
\* top directory, traversal was allowed, and then a root that does not exist
\* ended the configuration.
C24_Witness ==
    /\ rpc = "config_error"
    /\ options.root_directory = SomePath(<< >>)
    /\ options.links_may_traverse_the_root_directory
    /\ resolved = Err(None)

\* ------------------------------------------------ claims on a whole batch

\* The hrefs in a bucket of links.
HrefsIn(bucket) == { bucket[k].href : k \in 1..Len(bucket) }

\* validate has returned and the url's request had succeeded.
EndToEndDone ==
    /\ finished
    /\ \E i \in LinkIds : links[i] = "https://a/" /\ "head_ok" \in ToSet(log[i])

\* What the batch is said to yield.
EndToEndOutcomes ==
    /\ Len(outcomes.valid) = 1
    /\ HrefsIn(outcomes.valid) = {"https://a/"}
    /\ Len(outcomes.invalid) = 2
    /\ { [href |-> outcomes.invalid[k].link.href,
          reason |-> outcomes.invalid[k].reason] :
            k \in 1..Len(outcomes.invalid) }
         = { [href |-> "./missing.md", reason |-> IoNotFound],
             [href |-> "/etc/passwd", reason |-> TraversesParentDirectories] }
    /\ outcomes.ignored = << >>
    /\ outcomes.unknown_category = << >>

\* C25 as stated: with no root directory and nothing ignored, the batch of
\* the url whose request succeeds, the missing markdown file and the rooted
\* path yields the url as valid, the file as invalid for not being found and
\* the rooted path as invalid for traversing, whatever the concurrency and
\* the order of completion.
C25_AsStated == EndToEndDone => EndToEndOutcomes

\* The same batch under the default symlink policy.
C25_WhenFollowingSymlinks ==
    (EndToEndDone /\ options.follow_symlinks) => EndToEndOutcomes

\* ------------------------------------------ claims on the candidates' order

\* The candidates of the joined path: itself, then its alternates in the
\* configured order; the first of them that canonicalises, 0 for none.
CandidateList ==
    <<Joined.val>> \o [k \in 1..Len(Alternates) |-> AlternatePath(k)]
Canonicalising ==
    { k \in 1..Len(CandidateList) : canonicalize(fs, options, CandidateList[k]).ok }
FirstCanonicalising ==
    IF Canonicalising = {} THEN 0
    ELSE CHOOSE k \in Canonicalising : \A other \in Canonicalising : k <= other

\* The canonical path is one the Options let through.
LetThrough(canonical) ==
    \/ ~options.root_directory.some
    \/ options.links_may_traverse_the_root_directory
    \/ StartsWith(canonical, options.root_directory.path)

\* resolve_link looked up the candidates in order, up to the first that
\* canonicalises; a path with no extension, or one without alternates, has
\* itself for only candidate.
TriedInOrder ==
    /\ tried = SubSeq(CandidateList, 1,
                      IF FirstCanonicalising = 0 THEN Len(CandidateList)
                      ELSE FirstCanonicalising)
    /\ (\/ Extension(Joined.val) = None
        \/ ToLowercase(Extension(Joined.val))
              \notin DOMAIN options.alternate_extensions)
          => tried = <<Joined.val>>

\* C26 as stated: the candidates are looked up in order and the first one
\* that canonicalises is returned.
C26_AsStated ==
    (Resolved /\ Joined.ok) =>
        /\ TriedInOrder
        /\ FirstCanonicalising # 0 =>
              resolved = canonicalize(fs, options, CandidateList[FirstCanonicalising])

\* C26: the joined path is looked up first, then its alternates in the
\* configured order and only when its extension, in lower case, is a key of
\* the mapping; the first candidate that canonicalises decides: it is
\* returned when the Options let it through and the link fails with
\* TraversesParentDirectories when they do not.
C26_CandidateOrder ==
    (Resolved /\ Joined.ok) =>
        /\ TriedInOrder
        /\ FirstCanonicalising # 0 =>
              LET canonical ==
                     canonicalize(fs, options, CandidateList[FirstCanonicalising])
              IN  resolved = IF LetThrough(canonical.val) THEN canonical
                             ELSE Err(TraversesParentDirectories)

\* index.MD was asked for where index.md, index.txt and index.html all
\* exist, with txt and html as alternates: index.md itself came back, and
\* nothing else was looked up.
C26_Witness ==
    /\ Resolved
    /\ options.follow_symlinks
    /\ options.alternate_extensions = [e \in {"md"} |-> <<"txt", "html">>]
    /\ current_directory = <<"r", "foo">>
    /\ link_path = Rel(<<"index.md">>)
    /\ exists(fs, <<"r", "foo", "index.html">>)
    /\ tried = << <<"r", "foo", "index.md">> >>
    /\ resolved = Ok(<<"r", "foo", "index.md">>)

\* --------------------------------------- claims on the end of the search

\* The first candidate that canonicalises is one the Options turn down.
FirstIsTurnedDown ==
    /\ Resolved
    /\ Joined.ok
    /\ FirstCanonicalising # 0
    /\ ~LetThrough(canonicalize(fs, options,
                                CandidateList[FirstCanonicalising]).val)

\* C27: when the first candidate that canonicalises fails the sanity check,
\* resolve_link fails with TraversesParentDirectories and has looked up no
\* candidate after it; the candidates before it, which did not canonicalise,
\* left no error of their own, and when no candidate canonicalises at all the
\* link is not found, whatever made each of them fail.
C27_SearchStopsAtFirst ==
    (Resolved /\ Joined.ok) =>
        /\ FirstIsTurnedDown =>
              /\ resolved = Err(TraversesParentDirectories)
              /\ Len(tried) = FirstCanonicalising
              /\ tried[Len(tried)] = CandidateList[FirstCanonicalising]
        /\ FirstCanonicalising = 0 <=> resolved = Err(IoNotFound)
        /\ ~resolved.ok => resolved.err \in {TraversesParentDirectories, IoNotFound}

\* Under the root /r, index.md is missing, index.html is a symlink to a file
\* outside the root and index.txt is a file inside it: the link fails on
\* index.html and index.txt is never looked up.
C27_Witness ==
    /\ FirstIsTurnedDown
    /\ options.alternate_extensions = [e \in {"md"} |-> <<"html", "txt">>]
    /\ tried = << <<"r", "index.md">>, <<"r", "index.html">> >>
    /\ canonicalize(fs, options, <<"r", "index.txt">>) = Ok(<<"r", "index.txt">>)
    /\ LetThrough(<<"r", "index.txt">>)
    /\ resolved = Err(TraversesParentDirectories)

\* ------------------------------------------- claims on the default file

\* The candidate resolve_link looked up last, what the first step of
\* canonicalize makes of it, and the default file under it.
LastTried == tried[Len(tried)]
FirstStep(candidate) ==
    IF options.follow_symlinks THEN dunce_canonicalize(fs, candidate)
    ELSE Ok(normalize_path(candidate))
DefaultUnder(candidate) == Append(FirstStep(candidate).val, options.default_file)
IsDirectory(candidate) ==
    FirstStep(candidate).ok /\ is_dir(fs, FirstStep(candidate).val)

\* A candidate was looked up.
Looked == Resolved /\ Joined.ok /\ tried # << >>

\* What the Options make of a canonical path: the path, or a traversal.
Judged(canonical) ==
    IF LetThrough(canonical) THEN Ok(canonical)
    ELSE Err(TraversesParentDirectories)

\* Every candidate passed over was a directory without its default file or
\* did not pass the first step; the last one, if it is a directory without
\* its default file, failed too, and the link is not found.
DirectoriesNeedDefault ==
    /\ \A k \in 1..(Len(tried) - 1) :
          FirstStep(tried[k]).ok =>
              IsDirectory(tried[k]) /\ ~exists(fs, DefaultUnder(tried[k]))
    /\ (IsDirectory(LastTried) /\ ~exists(fs, DefaultUnder(LastTried))) =>
          /\ resolved = Err(IoNotFound)
          /\ tried = CandidateList
    /\ (FirstStep(LastTried).ok /\ ~IsDirectory(LastTried)) =>
          resolved = Judged(FirstStep(LastTried).val)

\* C28 as stated: a candidate that is a directory whose default file exists
\* gives the directory joined with the default file, if the Options let that
\* through.
C28_AsStated ==
    Looked =>
        /\ DirectoriesNeedDefault
        /\ (IsDirectory(LastTried) /\ exists(fs, DefaultUnder(LastTried))) =>
              resolved = Judged(DefaultUnder(LastTried))

\* C28: a candidate that is a directory whose default file exists gives the
\* directory joined with the default file when symlinks are not followed and
\* that path's canonical form when they are, if the Options let it through;
\* a directory without its default file fails as a candidate under either
\* policy, and a candidate that is no directory comes back with nothing
\* appended.
C28_DefaultFile ==
    Looked =>
        /\ DirectoriesNeedDefault
        /\ (IsDirectory(LastTried) /\ exists(fs, DefaultUnder(LastTried))) =>
              resolved = Judged(IF options.follow_symlinks
                                THEN dunce_canonicalize(fs, DefaultUnder(LastTried)).val
                                ELSE DefaultUnder(LastTried))

\* With symlinks not followed, `..` from /r/foo names the directory /r, which
\* has no index.html: the link is not found.
C28_Witness ==
    /\ Looked
    /\ ~options.follow_symlinks
    /\ current_directory = <<"r", "foo">>
    /\ link_path = Rel(<<"..">>)
    /\ IsDirectory(LastTried)
    /\ DefaultUnder(LastTried) = <<"r", "index.html">>
    /\ ~exists(fs, <<"r", "index.html">>)
    /\ resolved = Err(IoNotFound)

\* -------------------------------------------- claims on followed symlinks

\* The joined path names a symlink that lies inside the root, as its last
\* component or on the way.
PassesSymlinkInsideRoot ==
    \E k \in 1..Len(Joined.val) :
        LET parent == dunce_canonicalize(fs, SubSeq(Joined.val, 1, k - 1))
        IN  /\ parent.ok
            /\ Joined.val[k] \notin {".", ".."}
            /\ Append(parent.val, Joined.val[k]) \in DOMAIN fs
            /\ fs[Append(parent.val, Joined.val[k])].kind = "symlink"
            /\ StartsWith(Append(parent.val, Joined.val[k]),
                          options.root_directory.path)

\* Symlinks are followed, traversal is forbidden, and the link goes through
\* a symlink inside the root to a target outside it.
SymlinkLeavesRoot ==
    /\ Resolved
    /\ options.follow_symlinks
    /\ options.root_directory.some
    /\ ~options.links_may_traverse_the_root_directory
    /\ Joined.ok
    /\ PassesSymlinkInsideRoot
    /\ TargetOutsideRoot

\* C29 as stated: such a link fails with TraversesParentDirectories.
C29_AsStated ==
    SymlinkLeavesRoot => resolved = Err(TraversesParentDirectories)

\* C29: such a link fails with TraversesParentDirectories when its target is
\* a file, or a directory whose default file exists and resolves outside the
\* root; when the target is a directory without its default file and the
\* link has no alternates, it fails with Io(NotFound).
C29_SymlinkFollowed ==
    SymlinkLeavesRoot =>
        LET default == Append(Target.val, options.default_file)
        IN  /\ ~is_dir(fs, Target.val) =>
                  resolved = Err(TraversesParentDirectories)
            /\ (is_dir(fs, Target.val) /\ exists(fs, default)
                  /\ ~StartsWith(dunce_canonicalize(fs, default).val,
                                 options.root_directory.path)) =>
                  resolved = Err(TraversesParentDirectories)
            /\ (is_dir(fs, Target.val) /\ ~exists(fs, default)
                  /\ Alternates = << >>) =>
                  resolved = Err(IoNotFound)

\* Under the root /r, `../out/index.html` from /r/foo goes through the
\* symlink /r/out to /index.html, and fails as a traversal.
C29_Witness ==
    /\ SymlinkLeavesRoot
    /\ options.root_directory = SomePath(<<"r">>)
    /\ current_directory = <<"r", "foo">>
    /\ link_path = Rel(<<"..", "out", "index.html">>)
    /\ Target = Ok(<<"index.html">>)
    /\ resolved = Err(TraversesParentDirectories)

\* ------------------------------------------------ claims on a hung probe

\* Every link but the hung one has been started and checked.
OthersDone == \A i \in LinkIds \ {HungLink} : pc[i] = "done"

\* One link's request never ends and the concurrency is two or more.
HungCase == HungLink # 0 /\ concurrency >= 2

\* C30: when the request of one link never ends and the concurrency is two
\* or more, the hung check holds one place of the queue, so that at most
\* concurrency - 1 other checks run beside it; every other link is started
\* and checked in the end, and validate never returns.
C30_HungProbe ==
    /\ [](HungCase =>
             /\ ~finished
             /\ pc[HungLink] = "probing" =>
                    Cardinality(InFlight \ {HungLink}) <= concurrency - 1)
    /\ HungCase ~> OthersDone

\* The first of three urls hangs; the two after it were probed and checked
\* and validate has not returned.
C30_Witness ==
    /\ HungLink = 1
    /\ Len(links) = MaxLinks
    /\ concurrency >= 2
    /\ pc[HungLink] = "probing"
    /\ OthersDone
    /\ \A i \in LinkIds \ {HungLink} : probes[i] = 1
    /\ ~finished

\* ------------------------------------------------- claims on the request

\* C31: as stated, a check whose HEAD request failed has sent a GET request
\* before it reports the link invalid.
C31_AsStated ==
    \A i \in LinkIds :
        (pc[i] = "done" /\ "head_err" \in ToSet(log[i])) =>
            "get" \in ToSet(log[i])

\* C32: under a context whose cache() hands out nothing, the cache stays as
\* it was, every url check that starts sends its request, and the check's
\* outcome is the request's: valid when it succeeded, invalid with Web when
\* it did not.  The trait's default hands out nothing, BasicContext always
\* hands out its cache.
C32_NoCacheNoCaching ==
    /\ [](Context_cache = FALSE /\ BasicContext_cache = TRUE)
    /\ []((has_cache = Context_cache) => cache = CacheNew)
    /\ [][(has_cache = Context_cache) =>
            \A i \in LinkIds :
                /\ (pc[i] = "queued" /\ pc'[i] # "queued" /\ IsUrlCheck(i)) =>
                      /\ pc'[i] = "probing"
                      /\ probes'[i] = 1
                      /\ log'[i] = <<"categorise", "head">>
                      /\ outcomes' = outcomes
                /\ (pc[i] = "probing" /\ pc'[i] = "done") =>
                      /\ cache' = cache
                      /\ \/ /\ log'[i] = <<"categorise", "head", "head_ok">>
                            /\ outcomes' = [outcomes EXCEPT
                                   !.valid = Append(@, Link(i))]
                         \/ /\ log'[i] = <<"categorise", "head", "head_err">>
                            /\ outcomes' = [outcomes EXCEPT
                                   !.invalid = Append(@, [link |-> Link(i),
                                                          reason |-> Web])]]_vars

\* Without a cache two checks of one url have each sent a request, the first
\* of which succeeded, and validate has returned; with BasicContext's cache
\* the second check of such a pair sends none.
C32_Witness ==
    \E i, j \in LinkIds :
        /\ i < j
        /\ IsUrlCheck(i) /\ IsUrlCheck(j) /\ UrlOf(i) = UrlOf(j)
        /\ has_cache = Context_cache
        /\ finished
        /\ log[i] = <<"categorise", "head", "head_ok">>
        /\ probes[j] = 1
        /\ cache = CacheNew

\* ---------------------------------------------- claims on the cache's frame

\* The entries the cache holds, as Cache::iter yields them.
Entries(c) == { u \in CacheKeys : c[u].some }

\* C33: url_is_still_valid and the lookup it makes leave the cache as it
\* was, and the lookup returns the url's entry whether stale, failed or
\* fresh; the passing of time removes nothing; the cache changes only by
\* clear, which empties it, or by insert, which leaves some url with an entry
\* and every other url's entry as it was.
C33_StalenessAtReadTime ==
    [][/\ query' # query =>
            /\ cache' = cache
            /\ query'.found = cache[query'.url]
       /\ now' # now => cache' = cache
       /\ cache' # cache =>
            \/ Entries(cache') = {}
            \/ \E url \in CacheKeys :
                  /\ cache'[url].some
                  /\ \A u \in CacheKeys \ {url} : cache'[u] = cache[u]]_vars

\* The cache holds a failed entry of one url and a successful entry of
\* another, older than the timeout just asked about: the question was
\* answered no, the lookup returned the entry, and both are still there.
C33_Witness ==
    \E other \in Urls :
        /\ query.url \in Urls \ {other}
        /\ query.at = now
        /\ query.found.some /\ query.found.valid
        /\ now - query.found.timestamp > query.timeout
        /\ ~query.answer
        /\ cache[query.url] = query.found
        /\ cache[other].some /\ ~cache[other].valid
        /\ Entries(cache) = {query.url, other}

\* --------------------------------------------------- claims on termination

\* C34: when every request ends, validate returns in the end, and when it
\* has returned every link is done and stands once in the Outcomes, every
\* link not ignored was categorised, and no check sent more than one request.
C34_Termination ==
    /\ <>finished
    /\ [](finished =>
            \A i \in LinkIds :
                /\ pc[i] = "done"
                /\ TimesCollected(i) = 1
                /\ probes[i] <= 1
                /\ IF should_ignore(Link(i))
                   THEN log[i] = << >>
                   ELSE Len(log[i]) >= 1 /\ log[i][1] = "categorise")

\* validate has returned from a full batch of urls checked one at a time,
\* some request having failed and some having succeeded.
C34_Witness ==
    /\ finished
    /\ Len(links) = MaxLinks
    /\ concurrency = 1
    /\ ignored = {}
    /\ \A i \in LinkIds : IsUrlCheck(i) /\ probes[i] = 1
    /\ outcomes.valid # << >>
    /\ outcomes.invalid # << >>

\* ------------------------------------------- claims on repeated urls

\* The url checks other than j, of j's url, whose request has succeeded.
Succeeded(j) ==
    { i \in LinkIds \ {j} :
        /\ IsUrlCheck(i) /\ UrlOf(i) = UrlOf(j)
        /\ pc[i] = "done"
        /\ "head_ok" \in ToSet(log[i]) }

\* C35: as stated, with a cache, once the request of a url check succeeds no
\* later check of the batch for that url has sent a request of its own,
\* whether it started during that request or after it.
C35_AsStated ==
    has_cache =>
        \A i, j \in LinkIds :
            (/\ i < j
             /\ IsUrlCheck(i) /\ IsUrlCheck(j) /\ UrlOf(i) = UrlOf(j)
             /\ "head_ok" \in ToSet(log[i])) => probes[j] = 0

\* C35: with a cache, a url check that starts after the request of another
\* check of its url has succeeded, while the entry then recorded is still a
\* success younger than cache_timeout, sends no request and is valid; a url
\* check that starts before any check of its url has succeeded sends its own
\* request, also while another request for that url is under way.
C35_ProbedOnceWhileFresh ==
    [][\A j \in LinkIds :
        (has_cache /\ pc[j] = "queued" /\ pc'[j] # "queued" /\ IsUrlCheck(j)) =>
            LET recorded == cache[UrlOf(j)]
            IN  /\ (/\ Succeeded(j) # {}
                    /\ recorded.valid
                    /\ now - recorded.timestamp < cache_timeout) =>
                       /\ probes'[j] = 0
                       /\ pc'[j] = "done"
                       /\ Occurrences(outcomes'.valid, j) = 1
                /\ Succeeded(j) = {} =>
                       /\ probes'[j] = 1
                       /\ pc'[j] = "probing"]_vars

\* Three checks of one url, two at a time: the first two have each sent a
\* request that succeeded, the third started after and has sent none.
C35_Witness ==
    /\ has_cache
    /\ concurrency = 2
    /\ Len(links) = 3
    /\ \A i \in LinkIds : IsUrlCheck(i) /\ UrlOf(i) = UrlOf(1) /\ pc[i] = "done"
    /\ log[1] = <<"categorise", "cache_read", "head", "head_ok", "cache_write">>
    /\ log[2] = log[1]
    /\ probes[3] = 0
    /\ Len(outcomes.valid) = 3

\* C36: as stated, no step of validate turns an entry that is a fresh
\* success into a failure entry.
C36_AsStated ==
    [][\A u \in CacheKeys : FreshSuccess(u) => cache'[u].valid]_vars

\* C36: while a url's entry is a fresh success, a check of that url that
\* starts is done at once and leaves the cache alone; the entry is replaced
\* only at the end of a request for that url that was already under way, and
\* that check then records its own result, a failure included.
C36_FreshSuccessAndRequestsUnderWay ==
    [][\A u \in CacheKeys :
        FreshSuccess(u) =>
            /\ \A j \in LinkIds :
                  (/\ pc[j] = "queued" /\ pc'[j] # "queued"
                   /\ IsUrlCheck(j) /\ UrlOf(j) = u) =>
                      /\ pc'[j] = "done"
                      /\ probes'[j] = 0
                      /\ cache' = cache
            /\ \A i \in LinkIds :
                  (/\ pc[i] = "probing" /\ pc'[i] = "done"
                   /\ UrlOf(i) = u) =>
                      /\ cache'[u].some
                      /\ cache'[u].timestamp = now
                      /\ cache'[u].valid <=> "head_ok" \in ToSet(log'[i])
            /\ cache'[u] # cache[u] =>
                  \E i \in LinkIds :
                      /\ IsUrlCheck(i) /\ UrlOf(i) = u
                      /\ pc[i] = "probing" /\ pc'[i] = "done"]_vars

\* Two checks of one url under way together: the first request succeeded,
\* the second failed after it within the timeout, and the url's entry is the
\* failure.
C36_Witness ==
    /\ has_cache
    /\ Len(links) = 2
    /\ IsUrlCheck(1) /\ IsUrlCheck(2) /\ UrlOf(1) = UrlOf(2)
    /\ now = 0
    /\ log[1] = <<"categorise", "cache_read", "head", "head_ok", "cache_write">>
    /\ log[2] = <<"categorise", "cache_read", "head", "head_err", "cache_write">>
    /\ Len(outcomes.valid) = 1 /\ Len(outcomes.invalid) = 1
    /\ cache[UrlOf(1)] = [some |-> TRUE, timestamp |-> 0, valid |-> FALSE]

\* An entry stamped later than the clock's reading.
FromTheFuture(entry) == entry.some /\ entry.timestamp > now

\* C37: url_is_still_valid answers false, whatever the timeout, for a url
\* whose entry is stamped later than the clock, and check_web's question to a
\* cache holding such an entry is answered false as well, so that the
\* request is sent.
C37_FutureEntryNeverFresh ==
    /\ [](\A u \in Urls :
            FromTheFuture(cache[u]) => ~already_valid(TRUE, cache, u, now))
    /\ [][(query' # query /\ FromTheFuture(cache[query'.url])) =>
            ~query'.answer]_vars

\* A successful entry stamped one tick later than the clock, asked about
\* with the longest timeout: not fresh.
C37_Witness ==
    /\ query.url \in Urls
    /\ query.at = now
    /\ query.found = cache[query.url]
    /\ query.found.valid
    /\ query.found.timestamp = now + 1
    /\ query.timeout = MaxTimeout
    /\ ~query.answer

====
